---- MODULE Spec2Model ----
(***************************************************************************)
(* A model of par (reformat.c 1.53.0 with the par.c driver): the paragraph *)
(* reformatter reformat() with its break optimizers simplebreaks(),        *)
(* normalbreaks() and justbreaks(), and the driver's line analysis         *)
(* (readlines, compresuflen, delimit, marksuperf, the output loop of main).*)
(*                                                                         *)
(* Characters are one-character strings, a line is a sequence of them.     *)
(* Offsets into a line are 0-based as in the C code (line[k+1] is the byte *)
(* at offset k); booleans of the C code are the integers 0 and 1.          *)
(***************************************************************************)
EXTENDS Integers, Sequences, FiniteSets, TLC

VARIABLES
  pc,        \* position of the reformat() call
  inlines,   \* reformat: the input lines inlines[0 .. numin)
  par,       \* reformat: the scalar arguments of the call
  words,     \* reformat: the word list head->next .. tail
  score,     \* reformat: word.score, per position in the list
  nextline,  \* reformat: word.nextline, per position (0 is NULL)
  L,         \* reformat: the local L
  outlines,  \* reformat: the lines returned (<<>> on failure)
  outinfo,   \* reformat: per returned line, what the loop computed for it
  errmsg,    \* reformat: the errmsg buffer ("" is success)
  dpc,       \* position of the driver's main loop
  dcfg,      \* driver: the parameters main has after parsing its arguments
  input,     \* driver: the lines on stdin up to the next blank line
  lines,     \* driver: the lines readlines returned (main's inlines)
  props,     \* driver: the parallel lineprops
  synth,     \* driver: which of the lines readlines supplied itself
  detect,    \* driver: what delimit's bodiless test saw and decided, per test
  firstline, \* driver: main's firstline, as an offset into lines
  output,    \* driver: what main has written to stdout, line by line
  fate,      \* driver: per line, what the output loop did with it
  calls,     \* driver: the calls of reformat main has made
  derrmsg    \* driver: main's errmsg buffer

rvars == <<pc, inlines, par, words, score, nextline, L, outlines, outinfo, errmsg>>
dvars == <<dpc, dcfg, input, lines, props, synth, detect, firstline, output, fate,
           calls, derrmsg>>
vars == <<pc, inlines, par, words, score, nextline, L, outlines, outinfo, errmsg,
          dpc, dcfg, input, lines, props, synth, detect, firstline, output, fate,
          calls, derrmsg>>

----------------------------------------------------------------------------
(* ctype.h in the C locale, and small helpers *)

Lower == {"a","b","c","d","e","f","g","h","i","j","k","l","m",
          "n","o","p","q","r","s","t","u","v","w","x","y","z"}
Upper == {"A","B","C","D","E","F","G","H","I","J","K","L","M",
          "N","O","P","Q","R","S","T","U","V","W","X","Y","Z"}
Digit == {"0","1","2","3","4","5","6","7","8","9"}

isalnum(c) == c \in Lower \cup Upper \cup Digit
islower(c) == c \in Lower

Max(a, b) == IF a >= b THEN a ELSE b
Spaces(n) == [i \in 1..n |-> " "]
Range(s) == {s[i] : i \in DOMAIN s}

(* The bytes line[from .. to) *)
Bytes(line, from, to) == SubSeq(line, from + 1, to)

----------------------------------------------------------------------------
(* word flags, reformat.c:52-60 *)

W_SHIFTED == "W_SHIFTED"
W_CURIOUS == "W_CURIOUS"
W_CAPITAL == "W_CAPITAL"

(* a test of W_SHIFTED that never finds it *)
isshifted_never(w) == 0

isshifted(w) == IF W_SHIFTED \in w.flags THEN 1 ELSE 0
iscurious(w) == W_CURIOUS \in w.flags
iscapital(w) == W_CAPITAL \in w.flags

(* The characters a word views: chrs[0 .. length) in its line. *)
WordChars(lns, w) == Bytes(lns[w.ln], w.st, w.st + w.length)

(* checkcapital: the first alphanumeric character exists and is not lower case *)
checkcapital(chrs) ==
  LET alnums == {k \in DOMAIN chrs : isalnum(chrs[k])}
  IN  alnums # {} /\
      LET p == CHOOSE k \in alnums : \A j \in alnums : k <= j
      IN  ~islower(chrs[p])

(* checkcurious: scanning from the right, a terminal character is met before *)
(* any alphanumeric one, and an alphanumeric character stands left of it.    *)
checkcurious(chrs, terminalchars) ==
  LET stops == {k \in DOMAIN chrs : isalnum(chrs[k]) \/ chrs[k] \in terminalchars}
  IN  stops # {} /\
      LET p == CHOOSE k \in stops : \A j \in stops : j <= k
      IN  /\ ~isalnum(chrs[p])
          /\ p > 1
          /\ \E j \in 1..(p - 1) : isalnum(chrs[j])

----------------------------------------------------------------------------
(* reformat(): creating the words, reformat.c:333-371 *)

NoFlags == {}

(* while (p < end && *p == ' ') ++p; *)
RECURSIVE SkipSpaces(_, _, _)
SkipSpaces(line, p, end) ==
  IF p < end /\ line[p + 1] = " " THEN SkipSpaces(line, p + 1, end) ELSE p

(* while (p < end && *p != ' ') ++p; *)
RECURSIVE SkipWord(_, _, _)
SkipWord(line, p, end) ==
  IF p < end /\ line[p + 1] # " " THEN SkipWord(line, p + 1, end) ELSE p

(* The inner for (;;) over one line: the words of line[prefix .. end), the first *)
(* word of the whole paragraph starting at line + prefix whatever precedes it.   *)
RECURSIVE LineWords(_, _, _, _, _, _)
LineWords(line, ln, prefix, end, p, onfirstword) ==
  LET p1 == SkipSpaces(line, p, end)
  IN  IF p1 = end THEN <<>>
      ELSE LET p2 == SkipWord(line, p1, end)
               st == IF onfirstword THEN prefix ELSE p1
           IN  <<[ln |-> ln, st |-> st, length |-> p2 - st, flags |-> NoFlags]>>
               \o LineWords(line, ln, prefix, end, p2, FALSE)

(* The do-while over the lines; onfirstword stays set until a word is made. *)
RECURSIVE CreateWords(_, _, _, _, _)
CreateWords(lns, ln, prefix, suffix, onfirstword) ==
  IF ln > Len(lns) THEN <<>>
  ELSE LET ws == LineWords(lns[ln], ln, prefix, Len(lns[ln]) - suffix, prefix, onfirstword)
       IN  ws \o CreateWords(lns, ln + 1, prefix, suffix, onfirstword /\ ws = <<>>)

(* if (end - *line < affix): the lines that are shorter than prefix + suffix *)
ShortLines(lns, prefix, suffix) == {k \in DOMAIN lns : Len(lns[k]) < prefix + suffix}

ErrLineShort == "Line shorter than <prefix> + <suffix>"
ErrWordTooLong == "Word too long"
ErrCannotJustify == "Cannot justify."
ErrImpossibility1 == "(The impossibility #1 has occurred.)"
ErrImpossibility2 == "(The impossibility #2 has occurred.)"
ErrImpossibility3 == "(The impossibility #3 has occurred.)"
ErrImpossibility4 == "(The impossibility #4 has occurred.)"
ErrImpossibility5 == "(The impossibility #5 has occurred.)"

----------------------------------------------------------------------------
(* reformat(): the guess pass, reformat.c:375-397 *)

(* the test without w1->chrs + w1->length + 1 == w2->chrs *)
Adjacent_loose(lns, w1, w2) ==
  /\ w1.ln = w2.ln
  /\ w1.st + w1.length < Len(lns[w1.ln])

(* w1->chrs[w1->length] && w1->chrs + w1->length + 1 == w2->chrs *)
Adjacent(lns, w1, w2) ==
  /\ w1.ln = w2.ln
  /\ w1.st + w1.length < Len(lns[w1.ln])
  /\ w1.st + w1.length + 1 = w2.st

(* One iteration of the for loop: done holds the list up to w1 (its last word), *)
(* w2 is the word visited.                                                      *)
GuessStep(lns, done, w2, cap, terminalchars) ==
  LET chrs == WordChars(lns, w2)
      f1 == IF checkcurious(chrs, terminalchars) THEN w2.flags \cup {W_CURIOUS} ELSE w2.flags
  IN  IF cap = 1 \/ checkcapital(chrs)
      THEN LET f2 == f1 \cup {W_CAPITAL}
           IN  IF done # <<>> /\ iscurious(done[Len(done)])
               THEN LET w1 == done[Len(done)]
                    IN  IF Adjacent(lns, w1, w2)
                        THEN SubSeq(done, 1, Len(done) - 1) \o
                             <<[ln |-> w1.ln, st |-> w1.st,
                                length |-> w2.length + w1.length + 1,
                                flags |-> (f2 \ {W_CAPITAL, W_SHIFTED})
                                          \cup (w1.flags \cap {W_CAPITAL, W_SHIFTED})]>>
                        ELSE Append(done, [w2 EXCEPT !.flags = f2 \cup {W_SHIFTED}])
               ELSE Append(done, [w2 EXCEPT !.flags = f2])
      ELSE Append(done, [w2 EXCEPT !.flags = f1])

RECURSIVE GuessLoop(_, _, _, _, _, _)
GuessLoop(lns, ws, k, done, cap, terminalchars) ==
  IF k > Len(ws) THEN done
  ELSE GuessLoop(lns, ws, k + 1, GuessStep(lns, done, ws[k], cap, terminalchars),
                 cap, terminalchars)

GuessWords(lns, ws, guess, cap, terminalchars) ==
  IF guess = 1 THEN GuessLoop(lns, ws, 1, <<>>, cap, terminalchars) ELSE ws

----------------------------------------------------------------------------
(* reformat(): too-long words, reformat.c:401-436 *)

TooLong(ws, len) == {k \in DOMAIN ws : ws[k].length > len}

(* while (w2->length > L): a piece of length L is put before w2 and takes over *)
(* its capital and shifted flags.                                              *)
RECURSIVE SplitWord(_, _)
SplitWord(w2, len) ==
  IF w2.length > len
  THEN <<[ln |-> w2.ln, st |-> w2.st, length |-> len,
          flags |-> w2.flags \cap {W_CAPITAL, W_SHIFTED}]>>
       \o SplitWord([ln |-> w2.ln, st |-> w2.st + len, length |-> w2.length - len,
                     flags |-> w2.flags \ {W_CAPITAL, W_SHIFTED}], len)
  ELSE <<w2>>

RECURSIVE SplitWords(_, _, _)
SplitWords(ws, k, len) ==
  IF k > Len(ws) THEN <<>> ELSE SplitWord(ws[k], len) \o SplitWords(ws, k + 1, len)

----------------------------------------------------------------------------
(* The break optimizers work on the word list ws = head->next .. tail; word k  *)
(* is ws[k], its next is k + 1, and NULL is written 0 in nextline.  sc and nl  *)
(* are the score and nextline fields of the words, as functions of k.          *)

(* The length of the line made of the words i .. j-1 (j = Len(ws) + 1 for a    *)
(* line that runs to the tail): each word after the first costs                *)
(* 1 + isshifted + length.                                                     *)
RECURSIVE LineLen(_, _, _)
LineLen(ws, i, j) ==
  IF j = i + 1 THEN ws[i].length
  ELSE LineLen(ws, i, j - 1) + 1 + isshifted(ws[j - 1]) + ws[j - 1].length

(* simplebreaks, second loop, inner for: w1 = i, w2 = j, cur is w1's           *)
(* (score, nextline) so far.  The update is on >=.                             *)
RECURSIVE SBInner(_, _, _, _, _, _, _)
SBInner(ws, len, sc, i, j, linelen, cur) ==
  IF linelen > len \/ j > Len(ws) THEN cur
  ELSE LET s == IF linelen < sc[j] THEN linelen ELSE sc[j]
           cur1 == IF s >= cur.score THEN [score |-> s, nextline |-> j] ELSE cur
       IN  SBInner(ws, len, sc, i, j + 1,
                   linelen + 1 + isshifted(ws[j]) + ws[j].length, cur1)

(* simplebreaks, both loops, w1 = i running from the tail to head->next.  The  *)
(* first loop handles the words from which the rest of the list fits one line  *)
(* (a final run of the list, as line lengths grow leftwards), the second loop  *)
(* all words before them.                                                      *)
RECURSIVE SBOuter(_, _, _, _, _, _)
SBOuter(ws, len, last, i, sc, nl) ==
  IF i = 0 THEN [score |-> sc, nextline |-> nl]
  ELSE LET linelen == LineLen(ws, i, Len(ws) + 1)
       IN  IF linelen <= len
           THEN SBOuter(ws, len, last, i - 1,
                        [sc EXCEPT ![i] = IF last = 1 THEN linelen ELSE len],
                        [nl EXCEPT ![i] = 0])
           ELSE LET cur == SBInner(ws, len, sc, i, i + 1, ws[i].length,
                                   [score |-> -1, nextline |-> nl[i]])
                IN  SBOuter(ws, len, last, i - 1,
                            [sc EXCEPT ![i] = cur.score],
                            [nl EXCEPT ![i] = cur.nextline])

(* simplebreaks counting the last line whatever last is *)
simplebreaks_counted(ws, len, last, sc, nl) ==
  IF ws = <<>> THEN [score |-> sc, nextline |-> nl, ret |-> len]
  ELSE LET r == SBOuter(ws, len, 1, Len(ws), sc, nl)
       IN  [score |-> r.score, nextline |-> r.nextline, ret |-> r.score[1]]

(* simplebreaks(head, tail, L, last): the fields it leaves and what it returns *)
simplebreaks(ws, len, last, sc, nl) ==
  IF ws = <<>> THEN [score |-> sc, nextline |-> nl, ret |-> len]
  ELSE LET r == SBOuter(ws, len, last, Len(ws), sc, nl)
       IN  [score |-> r.score, nextline |-> r.nextline, ret |-> r.score[1]]

(* normalbreaks, the fit search: for (tryL = L; ; --tryL).  FitStep is the    *)
(* body of the loop once simplebreaks has returned r.                          *)
RECURSIVE FitSearch(_, _, _, _, _, _, _)
RECURSIVE FitStep(_, _, _, _, _, _)
FitStep(ws, tryL, last, best, target, r) ==
  IF r.ret < 0 THEN [score |-> r.score, nextline |-> r.nextline, target |-> target]
  ELSE IF tryL - r.ret < best
       THEN FitSearch(ws, tryL - 1, last, r.score, r.nextline, tryL - r.ret, tryL)
       ELSE FitSearch(ws, tryL - 1, last, r.score, r.nextline, best, target)

FitSearch(ws, tryL, last, sc, nl, best, target) ==
  FitStep(ws, tryL, last, best, target, simplebreaks(ws, tryL, last, sc, nl))

(* the last pass with the cost of a line extra instead of its square *)
RECURSIVE NBInner_linear(_, _, _, _, _, _, _, _, _)
NBInner_linear(ws, target, shortest, last, sc, i, j, linelen, cur) ==
  IF linelen > target THEN cur
  ELSE LET null == j > Len(ws)
           extra == IF null /\ last = 0 THEN 0 ELSE target - linelen
           minlen == IF null /\ last = 0 THEN 0 ELSE shortest
           s0 == IF null THEN 0 ELSE sc[j]
           s1 == s0 + extra
           cur1 == IF linelen >= minlen /\ s0 >= 0 /\ (cur.score < 0 \/ s1 <= cur.score)
                   THEN [score |-> s1, nextline |-> IF null THEN 0 ELSE j]
                   ELSE cur
       IN  IF null THEN cur1
           ELSE NBInner_linear(ws, target, shortest, last, sc, i, j + 1,
                        linelen + 1 + isshifted(ws[j]) + ws[j].length, cur1)

(* normalbreaks, the inner for of the last pass: w1 = i, w2 = j                *)
(* (j = Len(ws) + 1 is w2 = NULL).  The update is on <=.                       *)
RECURSIVE NBInner(_, _, _, _, _, _, _, _, _)
NBInner(ws, target, shortest, last, sc, i, j, linelen, cur) ==
  IF linelen > target THEN cur
  ELSE LET null == j > Len(ws)
           extra == IF null /\ last = 0 THEN 0 ELSE target - linelen
           minlen == IF null /\ last = 0 THEN 0 ELSE shortest
           s0 == IF null THEN 0 ELSE sc[j]
           s1 == s0 + extra * extra
           cur1 == IF linelen >= minlen /\ s0 >= 0 /\ (cur.score < 0 \/ s1 <= cur.score)
                   THEN [score |-> s1, nextline |-> IF null THEN 0 ELSE j]
                   ELSE cur
       IN  IF null THEN cur1
           ELSE NBInner(ws, target, shortest, last, sc, i, j + 1,
                        linelen + 1 + isshifted(ws[j]) + ws[j].length, cur1)

RECURSIVE NBOuter(_, _, _, _, _, _, _)
NBOuter(ws, target, shortest, last, i, sc, nl) ==
  IF i = 0 THEN [score |-> sc, nextline |-> nl]
  ELSE LET cur == NBInner(ws, target, shortest, last, sc, i, i + 1, ws[i].length,
                          [score |-> -1, nextline |-> nl[i]])
       IN  NBOuter(ws, target, shortest, last, i - 1,
                   [sc EXCEPT ![i] = cur.score], [nl EXCEPT ![i] = cur.nextline])

(* normalbreaks, lines 177-207: the last pass and the check after it, s being *)
(* what simplebreaks(head, tail, target, last) left and returned.              *)
NBResult(target, shortest, r) ==
  [score |-> r.score, nextline |-> r.nextline,
   errmsg |-> IF r.score[1] < 0 THEN ErrImpossibility2 ELSE "",
   target |-> target, shortest |-> shortest]

NBLastPass(ws, target, last, s) ==
  IF s.ret < 0
  THEN [score |-> s.score, nextline |-> s.nextline, errmsg |-> ErrImpossibility1,
        target |-> target, shortest |-> s.ret]
  ELSE NBResult(target, s.ret,
                NBOuter(ws, target, s.ret, last, Len(ws), s.score, s.nextline))

(* normalbreaks, lines 169-175, f being what the fit search left *)
NBShortest(ws, last, f) ==
  NBLastPass(ws, f.target, last, simplebreaks(ws, f.target, last, f.score, f.nextline))

(* normalbreaks with lines allowed one byte more than L *)
normalbreaks_wide(ws, len, fit, last, sc, nl) ==
  IF ws = <<>>
  THEN [score |-> sc, nextline |-> nl, errmsg |-> "", target |-> len, shortest |-> len]
  ELSE NBShortest(ws, last,
                  IF fit = 1 THEN FitSearch(ws, len + 1, last, sc, nl, len + 1, len + 1)
                  ELSE [score |-> sc, nextline |-> nl, target |-> len + 1])

(* normalbreaks with lines allowed one byte less than L *)
normalbreaks_narrow(ws, len, fit, last, sc, nl) ==
  IF ws = <<>>
  THEN [score |-> sc, nextline |-> nl, errmsg |-> "", target |-> len, shortest |-> len]
  ELSE NBShortest(ws, last,
                  IF fit = 1 THEN FitSearch(ws, len - 1, last, sc, nl, len + 1, len - 1)
                  ELSE [score |-> sc, nextline |-> nl, target |-> len - 1])

(* normalbreaks(head, tail, L, fit, last, errmsg) *)
normalbreaks(ws, len, fit, last, sc, nl) ==
  IF ws = <<>>
  THEN [score |-> sc, nextline |-> nl, errmsg |-> "", target |-> len, shortest |-> len]
  ELSE NBShortest(ws, last,
                  IF fit = 1 THEN FitSearch(ws, len, last, sc, nl, len + 1, len)
                  ELSE [score |-> sc, nextline |-> nl, target |-> len])

----------------------------------------------------------------------------
(* justbreaks, reformat.c:211-294 *)

(* the gap of a line with no gap taken as 0 *)
Gap_zero(numgaps, extra, len) ==
  IF numgaps # 0 THEN (extra + numgaps - 1) \div numgaps ELSE 0

(* the gap rounded down *)
Gap_floor(numgaps, extra, len) ==
  IF numgaps # 0 THEN extra \div numgaps ELSE len

(* gap = numgaps ? (extra + numgaps - 1) / numgaps : L *)
Gap(numgaps, extra, len) ==
  IF numgaps # 0 THEN (extra + numgaps - 1) \div numgaps ELSE len

(* Pass 1, the inner for: w1 = i, w2 = j (Len(ws) + 1 is NULL).  The update    *)
(* is on <.                                                                    *)
RECURSIVE JB1Inner(_, _, _, _, _, _, _, _, _)
JB1Inner(ws, len, last, sc, i, j, numgaps, extra, cur) ==
  IF extra < 0 THEN cur
  ELSE LET null == j > Len(ws)
           gap == IF null /\ last = 0 THEN 0 ELSE Gap(numgaps, extra, len)
           s0 == IF null THEN 0 ELSE sc[j]
           s == IF gap > s0 THEN gap ELSE s0
           cur1 == IF s < cur.score
                   THEN [score |-> s, nextline |-> IF null THEN 0 ELSE j]
                   ELSE cur
       IN  IF null THEN cur1
           ELSE JB1Inner(ws, len, last, sc, i, j + 1, numgaps + 1,
                         extra - (1 + isshifted(ws[j]) + ws[j].length), cur1)

RECURSIVE JB1Outer(_, _, _, _, _, _)
JB1Outer(ws, len, last, i, sc, nl) ==
  IF i = 0 THEN [score |-> sc, nextline |-> nl]
  ELSE LET cur == JB1Inner(ws, len, last, sc, i, i + 1, 0, len - ws[i].length,
                           [score |-> len, nextline |-> nl[i]])
       IN  JB1Outer(ws, len, last, i - 1,
                    [sc EXCEPT ![i] = cur.score], [nl EXCEPT ![i] = cur.nextline])

(* the cost without the part of the big gaps in the product *)
GapCost_nobig(numgaps, extra) ==
  LET numbiggaps == extra % numgaps
  IN  (extra \div numgaps) * extra + numbiggaps

(* The cost of a line in pass 2, lines 277-278 *)
GapCost(numgaps, extra) ==
  LET numbiggaps == extra % numgaps
  IN  (extra \div numgaps) * (extra + numbiggaps) + numbiggaps

(* Pass 2, the inner for.  cur.fpe records that extra % numgaps was evaluated  *)
(* with numgaps = 0.  The update is on <=.                                     *)
RECURSIVE JB2Inner(_, _, _, _, _, _, _, _, _, _)
JB2Inner(ws, len, last, maxgap, sc, i, j, numgaps, extra, cur) ==
  IF extra < 0 THEN cur
  ELSE LET null == j > Len(ws)
           gap == Gap(numgaps, extra, len)
           s0 == IF null THEN 0 ELSE sc[j]
       IN  IF null /\ last = 0
           THEN [cur EXCEPT !.score = 0, !.nextline = 0]
           ELSE LET cur1 ==
                      IF gap <= maxgap /\ s0 >= 0
                      THEN IF numgaps = 0
                           THEN [cur EXCEPT !.fpe = TRUE]
                           ELSE LET s == s0 + GapCost(numgaps, extra)
                                IN  IF cur.score < 0 \/ s <= cur.score
                                    THEN [cur EXCEPT !.score = s,
                                                     !.nextline = IF null THEN 0 ELSE j]
                                    ELSE cur
                      ELSE cur
                IN  IF null \/ cur1.fpe THEN cur1
                    ELSE JB2Inner(ws, len, last, maxgap, sc, i, j + 1, numgaps + 1,
                                  extra - (1 + isshifted(ws[j]) + ws[j].length), cur1)

RECURSIVE JB2Outer(_, _, _, _, _, _, _)
JB2Outer(ws, len, last, maxgap, i, sc, nl) ==
  IF i = 0 THEN [score |-> sc, nextline |-> nl, fpe |-> FALSE]
  ELSE LET cur == JB2Inner(ws, len, last, maxgap, sc, i, i + 1, 0, len - ws[i].length,
                           [score |-> -1, nextline |-> nl[i], fpe |-> FALSE])
       IN  IF cur.fpe THEN [score |-> sc, nextline |-> nl, fpe |-> TRUE]
           ELSE JB2Outer(ws, len, last, maxgap, i - 1,
                         [sc EXCEPT ![i] = cur.score], [nl EXCEPT ![i] = cur.nextline])

(* The first pass alone: the fields it leaves; maxgap is head->next->score. *)
justpass1(ws, len, last, sc, nl) == JB1Outer(ws, len, last, Len(ws), sc, nl)

(* justbreaks(head, tail, L, last, errmsg) *)
justbreaks(ws, len, last, sc, nl) ==
  IF ws = <<>>
  THEN [score |-> sc, nextline |-> nl, errmsg |-> "", maxgap |-> 0, fpe |-> FALSE]
  ELSE LET p1 == justpass1(ws, len, last, sc, nl)
           maxgap == p1.score[1]
       IN  IF maxgap >= len
           THEN [score |-> p1.score, nextline |-> p1.nextline,
                 errmsg |-> ErrCannotJustify, maxgap |-> maxgap, fpe |-> FALSE]
           ELSE LET p2 == JB2Outer(ws, len, last, maxgap, Len(ws), p1.score, p1.nextline)
                IN  [score |-> p2.score, nextline |-> p2.nextline,
                     errmsg |-> IF ~p2.fpe /\ p2.score[1] < 0
                                THEN ErrImpossibility3 ELSE "",
                     maxgap |-> maxgap, fpe |-> p2.fpe]

----------------------------------------------------------------------------
(* reformat(): touch and the construction of the lines, reformat.c:446-522 *)

(* The word after the last word of the line that w1 starts. *)
(* the loop over the words of a line stopping one word early on the last line *)
LineEnd_short(ws, nl, w1) == IF nl[w1] = 0 THEN Max(Len(ws), w1 + 1) ELSE nl[w1]

LineEnd(ws, nl, w1) == IF nl[w1] = 0 THEN Len(ws) + 1 ELSE nl[w1]

(* if (!just && touch): L becomes the length of the longest line chosen. *)
RECURSIVE LongestLine(_, _, _, _)
LongestLine(ws, nl, w1, longest) ==
  IF w1 = 0 THEN longest
  ELSE LongestLine(ws, nl, nl[w1], Max(longest, LineLen(ws, w1, LineEnd(ws, nl, w1))))

TouchL(ws, nl, len, just, touch) ==
  IF just = 0 /\ touch = 1
  THEN LongestLine(ws, nl, IF ws = <<>> THEN 0 ELSE 1, 0)
  ELSE len

(* the while loop of line 501 with phase > numgaps *)
PhaseStep_strict(phase, extra, numgaps) ==
  LET ph == phase + extra
      n == IF ph > numgaps THEN (ph - 1) \div numgaps ELSE 0
  IN  [spaces |-> n, phase |-> ph - n * numgaps]

(* One gap of a justified line: phase += extra; while (phase >= numgaps)       *)
(* { *q1++ = ' '; phase -= numgaps; }                                          *)
PhaseStep(phase, extra, numgaps) ==
  LET ph == phase + extra
      n == IF ph >= numgaps THEN ph \div numgaps ELSE 0
  IN  [spaces |-> n, phase |-> ph - n * numgaps]

(* The body of a line, lines 493-507: the words k .. e-1, one space between    *)
(* two words, the spaces of justification, and one more before a shifted word. *)
RECURSIVE LineBody(_, _, _, _, _, _, _, _)
LineBody(lns, ws, k, e, justify, numgaps, extra, phase) ==
  IF k + 1 = e THEN WordChars(lns, ws[k])
  ELSE LET st == IF justify THEN PhaseStep(phase, extra, numgaps)
                 ELSE [spaces |-> 0, phase |-> phase]
       IN  WordChars(lns, ws[k]) \o <<" ">> \o Spaces(st.spaces)
           \o Spaces(isshifted(ws[k + 1]))
           \o LineBody(lns, ws, k + 1, e, justify, numgaps, extra, st.phase)

(* The spaces of justification written into each gap of a line. *)
RECURSIVE GapSpaces(_, _, _, _)
GapSpaces(numgaps, extra, g, phase) ==
  IF g > numgaps THEN <<>>
  ELSE LET st == PhaseStep(phase, extra, numgaps)
       IN  <<st.spaces>> \o GapSpaces(numgaps, extra, g + 1, st.phase)

Min(a, b) == IF a <= b THEN a ELSE b

(* The prefix of output line numout (counted from 1), lines 482-489 *)
OutPrefix(lns, p, numout) ==
  LET numin == Len(lns)
      afp == Min(p.afp, p.prefix)
  IN  IF numout <= numin THEN Bytes(lns[numout], 0, p.prefix)
      ELSE IF numin > p.hang THEN Bytes(lns[numin], 0, p.prefix)
      ELSE Bytes(lns[numin], 0, afp) \o Spaces(p.prefix - afp)

(* The suffix of output line numout, lines 512-519; suffixes[k] is the end of  *)
(* line k minus suffix.                                                        *)
OutSuffix(lns, p, numout) ==
  LET numin == Len(lns)
      fs == Min(p.fs, p.suffix)
      suf(k) == Len(lns[k]) - p.suffix
  IN  IF numout <= numin THEN Bytes(lns[numout], suf(numout), suf(numout) + p.suffix)
      ELSE IF numin > p.hang THEN Bytes(lns[numin], suf(numin), suf(numin) + p.suffix)
      ELSE Bytes(lns[numin], suf(numin), suf(numin) + fs) \o Spaces(p.suffix - fs)

(* the test of line 499 without (w1->nextline || last), and with !last *)
JustifyLine_every(just, last, nextl) == just = 1
JustifyLine_notlast(just, last, nextl) == just = 1 /\ (nextl # 0 \/ last = 0)

(* if (just && (w1->nextline || last)): the gaps of the line that starts at w1  *)
(* take spaces of justification; nextl is w1->nextline.                        *)
JustifyLine(just, last, nextl) == just = 1 /\ (nextl # 0 \/ last = 1)

(* a line length that pads every line of a justified paragraph *)
LineLength_padded(p, len, w1, w2, extra) ==
  IF p.suffix # 0 \/ p.just = 1
  THEN len + p.prefix + p.suffix
  ELSE IF w1 # 0 THEN p.prefix + len - extra ELSE p.prefix

(* linelen = suffix || (just && (w2 || last)) ? L + affix :                    *)
(*           w1 ? prefix + L - extra : prefix                                  *)
LineLength(p, len, w1, w2, extra) ==
  IF p.suffix # 0 \/ (p.just = 1 /\ (w2 # 0 \/ p.last = 1))
  THEN len + p.prefix + p.suffix
  ELSE IF w1 # 0 THEN p.prefix + len - extra ELSE p.prefix

(* One pass of the while loop at line 465, for output line numout (already     *)
(* incremented).  w1 is the word that starts the line (0 for none), w2in the   *)
(* value w2 has when the loop is entered.                                      *)
OutLine(lns, ws, nl, p, len, numout, w1, w2in) ==
  LET affix == p.prefix + p.suffix
      e == IF w1 # 0 THEN LineEnd(ws, nl, w1) ELSE 0
      w2 == IF w1 # 0 THEN nl[w1] ELSE w2in
      numgaps == IF w1 # 0 THEN e - w1 - 1 ELSE 0
      extra == IF w1 # 0 THEN len - LineLen(ws, w1, e) ELSE 0
      linelen == LineLength(p, len, w1, w2, extra)
      justify == w1 # 0 /\ JustifyLine(p.just, p.last, nl[w1])
      wordsbody == IF w1 # 0
                   THEN LineBody(lns, ws, w1, e, justify, numgaps, extra, numgaps \div 2)
                   ELSE <<>>
      body == wordsbody \o Spaces(linelen - affix - Len(wordsbody))
  IN  [w1 |-> w1, w2 |-> w2, numgaps |-> numgaps, extra |-> extra,
       linelen |-> linelen, justify |-> justify,
       gaps |-> IF justify THEN GapSpaces(numgaps, extra, 1, numgaps \div 2)
                ELSE [g \in 1..numgaps |-> 0],
       wordsbody |-> wordsbody, body |-> body,
       text |-> OutPrefix(lns, p, numout) \o body \o OutSuffix(lns, p, numout)]

(* while (numout < hang || w1) *)
RECURSIVE OutLoop(_, _, _, _, _, _, _, _)
OutLoop(lns, ws, nl, p, len, numout, w1, w2) ==
  IF numout < p.hang \/ w1 # 0
  THEN LET o == OutLine(lns, ws, nl, p, len, numout + 1, w1, w2)
       IN  <<o>> \o OutLoop(lns, ws, nl, p, len, numout + 1,
                            IF w1 # 0 THEN nl[w1] ELSE 0, o.w2)
  ELSE <<>>

(* w2 is NULL when the loop is entered: both loops over the too-long words end *)
(* with w2 = NULL, and the touch loop leaves it NULL.                          *)
ConstructLines(lns, ws, nl, p, len) ==
  OutLoop(lns, ws, nl, p, len, 0, IF ws = <<>> THEN 0 ELSE 1, 0)

Texts(info) == [k \in DOMAIN info |-> info[k].text]

----------------------------------------------------------------------------
(* The calls of reformat() that are explored *)

MaxChars == 3      \* byte sweep: the most characters in all lines of a call
MaxLines == 2      \* byte sweep: the most input lines
MaxHang == 2       \* byte sweep: the largest hang
MaxAffix == 1      \* byte sweep: the largest prefix and suffix
MaxWidth == 3      \* byte sweep: the largest width
MaxWords == 4      \* word sweep: the most words of a paragraph
MaxWordLen == 3    \* word sweep: the longest word
MaxGuessWords == 3 \* guess sweep: the most words of a paragraph

Bit == {0, 1}
Alphabet == {" ", "a"}
TerminalChars == {".", "?", "!", ":"}

RECURSIVE TotalLen(_)
TotalLen(lns) == IF lns = <<>> THEN 0 ELSE Len(lns[1]) + TotalLen(Tail(lns))

(* Byte sweep: every paragraph of up to MaxLines lines and MaxChars characters *)
(* over Alphabet, with every setting of the boolean arguments.                 *)
LinesUpTo(n) == UNION {[1..k -> Alphabet] : k \in 0..n}

Paragraphs ==
  {lns \in UNION {[1..k -> LinesUpTo(MaxChars)] : k \in 1..MaxLines} :
     TotalLen(lns) <= MaxChars}

(* main calls reformat only with width > prefix + suffix (par.c, the check     *)
(* before the call).                                                           *)
SweepParams ==
  {p \in [afp : 0..MaxAffix, fs : 0..MaxAffix, hang : 0..MaxHang,
          prefix : 0..MaxAffix, suffix : 0..MaxAffix, width : 1..MaxWidth,
          cap : Bit, fit : Bit, guess : Bit, just : Bit, last : Bit,
          Report : Bit, touch : Bit, terminalchars : {TerminalChars}] :
     /\ p.width > p.prefix + p.suffix
     /\ p.afp = p.prefix /\ p.fs = p.suffix}


(* Word sweep: one line of up to MaxWords words of up to MaxWordLen letters,   *)
(* word k written in the k-th letter, with every setting of the arguments the  *)
(* break optimizers read.                                                      *)
Letters == <<"a","b","c","d","e","f","g","h","i","j","k","l","m",
             "n","o","p","q","r","s","t","u","v","w","x","y","z">>
Letter(k) == Letters[((k - 1) % 26) + 1]

RECURSIVE WordText(_, _)
WordText(lens, k) ==
  IF k > Len(lens) THEN <<>>
  ELSE (IF k > 1 THEN <<" ">> ELSE <<>>) \o [i \in 1..lens[k] |-> Letter(k)]
       \o WordText(lens, k + 1)

WordTexts == {<<WordText(lens, 1)>> :
                lens \in UNION {[1..n -> 1..MaxWordLen] : n \in 1..MaxWords}}

WordParams ==
  [afp : {0}, fs : {0}, hang : {0}, prefix : {0}, suffix : {0},
   width : 1..(MaxWords + MaxWordLen + 1),
   cap : {0}, fit : Bit, guess : {0}, just : Bit, last : Bit,
   Report : Bit, touch : Bit, terminalchars : {TerminalChars}]


(* Guess sweep: one line of two to MaxGuessWords words, each one of "a", "a."  *)
(* and "A", one or two spaces between two words, with guess = 1.               *)
GuessTokens == {<<"a">>, <<"a", ".">>, <<"A">>}

RECURSIVE GuessTextsOf(_)
GuessTextsOf(n) ==
  IF n = 1 THEN GuessTokens
  ELSE {t \o Spaces(g) \o w : t \in GuessTextsOf(n - 1), g \in 1..2, w \in GuessTokens}

GuessTexts == {<<t>> : t \in UNION {GuessTextsOf(n) : n \in 2..MaxGuessWords}}

GuessParams ==
  [afp : {0}, fs : {0}, hang : {0}, prefix : {0}, suffix : {0},
   width : 1..(2 * MaxGuessWords),
   cap : Bit, fit : {0}, guess : {1}, just : Bit, last : Bit,
   Report : Bit, touch : {0}, terminalchars : {TerminalChars}]


(* main's values when no option is given, with width, just, guess as said *)
Defaults(width, just, guess) ==
  [afp |-> 0, fs |-> 0, hang |-> 0, prefix |-> 0, suffix |-> 0, width |-> width,
   cap |-> 0, fit |-> 0, guess |-> guess, just |-> just, last |-> 0,
   Report |-> 0, touch |-> 0, terminalchars |-> TerminalChars]

Scenario1Lines == <<<<"T","h","e"," ","q","u","i","c","k"," ","b","r","o","w","n"," ","f","o","x"," ","j","u","m","p","s">>,
                    <<"o","v","e","r"," ","t","h","e"," ","l","a","z","y"," ","d","o","g",".">>>>
Scenario2Lines == <<<<"o","n","e"," ","t","w","o"," ","t","h","r","e","e"," ","f","o","u","r">>>>
Scenario3Lines == <<<<"H","e","l","l","o","."," "," ","W","o","r","l","d"," ","f","o","o",".">>>>
Scenario3OneSpace == <<<<"H","e","l","l","o","."," ","W","o","r","l","d"," ","f","o","o",".">>>>

ScenarioCalls ==
  {[lines |-> Scenario1Lines, par |-> Defaults(15, 0, 0)],
   [lines |-> Scenario2Lines, par |-> Defaults(20, 1, 0)],
   [lines |-> Scenario3Lines, par |-> Defaults(10, 0, 1)],
   [lines |-> Scenario3OneSpace, par |-> Defaults(10, 0, 1)]}


----------------------------------------------------------------------------
(* reformat() as a state machine *)

DriverIdle ==
  /\ dpc = "idle" /\ dcfg = <<>> /\ input = <<>> /\ lines = <<>> /\ props = <<>>
  /\ synth = <<>> /\ detect = <<>> /\ firstline = 0 /\ output = <<>>
  /\ fate = <<>> /\ calls = <<>> /\ derrmsg = ""

(* reformat() is entered with the lines lns and the arguments p *)
Call(lns, p) ==
  /\ inlines = lns /\ par = p
  /\ pc = "words"
  /\ words = <<>> /\ score = <<>> /\ nextline = <<>>
  /\ L = 0 /\ outlines = <<>> /\ outinfo = <<>> /\ errmsg = ""

Init ==
  /\ \/ \E lns \in Paragraphs, p \in SweepParams : Call(lns, p)
     \/ \E lns \in WordTexts, p \in WordParams : Call(lns, p)
     \/ \E lns \in GuessTexts, p \in GuessParams : Call(lns, p)
     \/ \E c \in ScenarioCalls : Call(c.lines, c.par)
  /\ DriverIdle

(* goto rfcleanup with a message: no line is returned *)
Fail(msg) ==
  /\ errmsg' = msg
  /\ pc' = "done"
  /\ outlines' = <<>>
  /\ outinfo' = <<>>

(* Lines 312-371: L is set and the words are created. *)
Tokenize ==
  /\ pc = "words"
  /\ L' = par.width - par.prefix - par.suffix
  /\ IF Len(inlines) <= 0
     THEN Fail(ErrImpossibility4) /\ UNCHANGED words
     ELSE IF ShortLines(inlines, par.prefix, par.suffix) # {}
     THEN Fail(ErrLineShort) /\ UNCHANGED words
     ELSE /\ words' = CreateWords(inlines, 1, par.prefix, par.suffix, TRUE)
          /\ pc' = "guess"
          /\ UNCHANGED <<outlines, outinfo, errmsg>>
  /\ UNCHANGED <<inlines, par, score, nextline>>
  /\ UNCHANGED dvars

(* Lines 375-397 *)
Guess ==
  /\ pc = "guess"
  /\ words' = GuessWords(inlines, words, par.guess, par.cap, par.terminalchars)
  /\ pc' = "long"
  /\ UNCHANGED <<inlines, par, score, nextline, L, outlines, outinfo, errmsg>>
  /\ UNCHANGED dvars

(* Lines 401-436 *)
LongWords ==
  /\ pc = "long"
  /\ IF par.Report = 1
     THEN IF TooLong(words, L) # {}
          THEN Fail(ErrWordTooLong) /\ UNCHANGED words
          ELSE pc' = "breaks" /\ UNCHANGED <<words, outlines, outinfo, errmsg>>
     ELSE /\ words' = SplitWords(words, 1, L)
          /\ pc' = "breaks"
          /\ UNCHANGED <<outlines, outinfo, errmsg>>
  /\ UNCHANGED <<inlines, par, score, nextline, L>>
  /\ UNCHANGED dvars

(* The score and nextline fields of the malloc'ed words are not initialized;   *)
(* the optimizers write each before they read it.                              *)
Fresh(ws) == [k \in DOMAIN ws |-> 0]

(* Line 440 with just = 1, justbreaks up to line 254: it returns at once on an  *)
(* empty list, else the first pass runs and maxgap = head->next->score is       *)
(* compared with L.                                                            *)
JustPass1 ==
  /\ pc = "breaks" /\ par.just = 1
  /\ IF words = <<>>
     THEN pc' = "lines" /\ UNCHANGED <<score, nextline, outlines, outinfo, errmsg>>
     ELSE LET r == justpass1(words, L, par.last, Fresh(words), Fresh(words))
          IN  /\ score' = r.score
              /\ nextline' = r.nextline
              /\ IF r.score[1] >= L THEN Fail(ErrCannotJustify)
                 ELSE pc' = "pass2" /\ UNCHANGED <<outlines, outinfo, errmsg>>
  /\ UNCHANGED <<inlines, par, words, L>>
  /\ UNCHANGED dvars

(* justbreaks from line 256 on, and line 442: the second pass. *)
JustBreaks ==
  /\ pc = "pass2"
  /\ LET r == justbreaks(words, L, par.last, score, nextline)
     IN  /\ score' = r.score
         /\ nextline' = r.nextline
         /\ IF r.fpe
            THEN pc' = "fpe" /\ UNCHANGED <<outlines, outinfo, errmsg>>
            ELSE IF r.errmsg # "" THEN Fail(r.errmsg)
            ELSE pc' = "lines" /\ UNCHANGED <<outlines, outinfo, errmsg>>
  /\ UNCHANGED <<inlines, par, words, L>>
  /\ UNCHANGED dvars

(* Lines 440-442 with just = 0. *)
NormalBreaks ==
  /\ pc = "breaks" /\ par.just = 0
  /\ LET r == normalbreaks(words, L, par.fit, par.last, Fresh(words), Fresh(words))
     IN  /\ score' = r.score
         /\ nextline' = r.nextline
         /\ IF r.errmsg # "" THEN Fail(r.errmsg)
            ELSE pc' = "lines" /\ UNCHANGED <<outlines, outinfo, errmsg>>
  /\ UNCHANGED <<inlines, par, words, L>>
  /\ UNCHANGED dvars

(* Lines 446-528: touch, then the lines are built and returned. *)
Construct ==
  /\ pc = "lines"
  /\ L' = TouchL(words, nextline, L, par.just, par.touch)
  /\ outinfo' = ConstructLines(inlines, words, nextline, par, L')
  /\ outlines' = Texts(outinfo')
  /\ pc' = "done"
  /\ UNCHANGED <<inlines, par, words, score, nextline, errmsg>>
  /\ UNCHANGED dvars

Next ==
  Tokenize \/ Guess \/ LongWords \/ JustPass1 \/ JustBreaks \/ NormalBreaks \/ Construct

Spec == Init /\ [][Next]_vars

----------------------------------------------------------------------------
(* reformat() with its loops taken one pass at a time: the loop over the       *)
(* too-long words (lines 411-436), the fit search of normalbreaks (lines       *)
(* 157-167) and the loop that constructs the lines (lines 465-522).  While the *)
(* fit search runs, outinfo holds its registers tryL, target and score (here   *)
(* best); while the lines are constructed, numout is Len(outinfo) and w1, w2   *)
(* are read from the last entry of outinfo.                                    *)

MaxLoopWords == 3   \* loop sweep: the most words of a paragraph
MaxLoopWidth == 5   \* loop sweep: the largest width

LoopTexts == {<<WordText(lens, 1)>> :
                lens \in UNION {[1..n -> 1..MaxWordLen] : n \in 1..MaxLoopWords}}

(* main calls reformat only with width > prefix + suffix (lines 1386-1391) *)
LoopParams ==
  {p \in [afp : {0}, fs : {0}, hang : 0..(MaxHang + 2), prefix : {0}, suffix : {0},
          width : 1..MaxLoopWidth,
          cap : {0}, fit : Bit, guess : {0}, just : Bit, last : Bit,
          Report : Bit, touch : {0}, terminalchars : {TerminalChars}] :
     p.width > p.prefix + p.suffix}

(* Before the call: main is about to call reformat *)
LInit ==
  /\ pc = "idle" /\ inlines = <<>> /\ par = <<>>
  /\ words = <<>> /\ score = <<>> /\ nextline = <<>>
  /\ L = 0 /\ outlines = <<>> /\ outinfo = <<>> /\ errmsg = ""
  /\ DriverIdle

(* Lines 1393-1397: reformat is entered with the lines lns and the arguments p *)
Enter ==
  /\ pc = "idle"
  /\ \E lns \in LoopTexts, p \in LoopParams : inlines' = lns /\ par' = p
  /\ pc' = "words"
  /\ UNCHANGED <<words, score, nextline, L, outlines, outinfo, errmsg>>
  /\ UNCHANGED dvars

(* One pass of while (w2->length > L) on word k: the piece w1 of length L is   *)
(* put before w2, which loses L bytes and its capital and shifted flags.       *)
SplitOnce(ws, k, len) ==
  SubSeq(ws, 1, k - 1)
  \o <<[ln |-> ws[k].ln, st |-> ws[k].st, length |-> len,
        flags |-> ws[k].flags \cap {W_CAPITAL, W_SHIFTED}],
       [ln |-> ws[k].ln, st |-> ws[k].st + len, length |-> ws[k].length - len,
        flags |-> ws[k].flags \ {W_CAPITAL, W_SHIFTED}]>>
  \o SubSeq(ws, k + 1, Len(ws))

(* w2 is the first word that is still too long *)
FirstTooLong(ws, len) == CHOOSE k \in TooLong(ws, len) : \A j \in TooLong(ws, len) : k <= j

(* Lines 411-436, Report = 0: one pass of the while loop *)
SplitStep ==
  /\ pc = "long" /\ par.Report = 0 /\ TooLong(words, L) # {}
  /\ words' = SplitOnce(words, FirstTooLong(words, L), L)
  /\ UNCHANGED <<pc, inlines, par, score, nextline, L, outlines, outinfo, errmsg>>
  /\ UNCHANGED dvars

(* Lines 401-436: the loop over the words is left *)
LongDone ==
  /\ pc = "long"
  /\ IF par.Report = 1 /\ TooLong(words, L) # {}
     THEN Fail(ErrWordTooLong)
     ELSE /\ TooLong(words, L) = {}
          /\ pc' = "breaks"
          /\ UNCHANGED <<outlines, outinfo, errmsg>>
  /\ UNCHANGED <<inlines, par, words, score, nextline, L>>
  /\ UNCHANGED dvars

(* the fit search that never lowers tryL *)
FitDown_stay(tryL) == tryL

(* --tryL *)
FitDown(tryL) == tryL - 1

(* normalbreaks up to line 156: target = L, and with fit, score = L + 1 and    *)
(* tryL = L.                                                                   *)
FitEnter ==
  /\ pc = "breaks" /\ par.just = 0
  /\ score' = Fresh(words) /\ nextline' = Fresh(words)
  /\ IF words = <<>>
     THEN pc' = "lines" /\ UNCHANGED outinfo
     ELSE IF par.fit = 1
          THEN /\ pc' = "fit"
               /\ outinfo' = [tryL |-> L, target |-> L, best |-> L + 1]
          ELSE /\ pc' = "shortest"
               /\ outinfo' = [tryL |-> L, target |-> L, best |-> 0]
  /\ UNCHANGED <<inlines, par, words, L, outlines, errmsg>>
  /\ UNCHANGED dvars

(* Lines 157-167: one pass of for (tryL = L; ; --tryL) *)
FitTry ==
  /\ pc = "fit"
  /\ LET r == simplebreaks(words, outinfo.tryL, par.last, score, nextline)
     IN  /\ score' = r.score
         /\ nextline' = r.nextline
         /\ IF r.ret < 0
            THEN pc' = "shortest" /\ UNCHANGED outinfo
            ELSE /\ pc' = pc
                 /\ outinfo' =
                      IF outinfo.tryL - r.ret < outinfo.best
                      THEN [tryL |-> FitDown(outinfo.tryL), target |-> outinfo.tryL,
                            best |-> outinfo.tryL - r.ret]
                      ELSE [outinfo EXCEPT !.tryL = FitDown(outinfo.tryL)]
  /\ UNCHANGED <<inlines, par, words, L, outlines, errmsg>>
  /\ UNCHANGED dvars

(* Lines 169-207: the rest of normalbreaks, with the target found *)
Shortest ==
  /\ pc = "shortest"
  /\ LET r == NBShortest(words, par.last,
                         [score |-> score, nextline |-> nextline,
                          target |-> outinfo.target])
     IN  /\ score' = r.score
         /\ nextline' = r.nextline
         /\ IF r.errmsg # "" THEN Fail(r.errmsg)
            ELSE pc' = "lines" /\ outinfo' = <<>> /\ UNCHANGED <<outlines, errmsg>>
  /\ UNCHANGED <<inlines, par, words, L>>
  /\ UNCHANGED dvars

(* Lines 446-464: touch, numout = 0, w1 = head->next *)
Touch ==
  /\ pc = "lines"
  /\ L' = TouchL(words, nextline, L, par.just, par.touch)
  /\ pc' = "out"
  /\ UNCHANGED <<inlines, par, words, score, nextline, outlines, outinfo, errmsg>>
  /\ UNCHANGED dvars

(* w1 and w2 before the next pass of the loop at line 465: if (w1) w1 =        *)
(* w1->nextline at the end of the pass before.                                 *)
OutW1 ==
  IF outinfo = <<>> THEN (IF words = <<>> THEN 0 ELSE 1)
  ELSE IF outinfo[Len(outinfo)].w1 # 0 THEN nextline[outinfo[Len(outinfo)].w1] ELSE 0
OutW2 == IF outinfo = <<>> THEN 0 ELSE outinfo[Len(outinfo)].w2

(* Lines 465-522: one pass of while (numout < hang || w1) *)
OutStep ==
  /\ pc = "out"
  /\ Len(outinfo) < par.hang \/ OutW1 # 0
  /\ outinfo' = Append(outinfo, OutLine(inlines, words, nextline, par, L,
                                        Len(outinfo) + 1, OutW1, OutW2))
  /\ outlines' = Texts(outinfo')
  /\ UNCHANGED <<pc, inlines, par, words, score, nextline, L, errmsg>>
  /\ UNCHANGED dvars

(* Lines 524-528: the loop is left and the lines are returned *)
OutDone ==
  /\ pc = "out"
  /\ ~(Len(outinfo) < par.hang \/ OutW1 # 0)
  /\ pc' = "done"
  /\ UNCHANGED <<inlines, par, words, score, nextline, L, outlines, outinfo, errmsg>>
  /\ UNCHANGED dvars

LNext ==
  \/ Enter \/ Tokenize \/ Guess \/ SplitStep \/ LongDone
  \/ JustPass1 \/ JustBreaks \/ FitEnter \/ FitTry \/ Shortest
  \/ Touch \/ OutStep \/ OutDone

SpecLoops == LInit /\ [][LNext]_vars

----------------------------------------------------------------------------
(* reformat() as one function, for the calls main makes: the steps above put  *)
(* together.  A call returns its lines, or a message and no line.              *)

ErrSIGFPE == "(division by zero)"

Failed(msg) == [errmsg |-> msg, outlines |-> <<>>]

(* Lines 446-528, r being what the break optimizer left *)
RfLines(lns, p, ws, r) ==
  IF r.errmsg # "" THEN Failed(r.errmsg)
  ELSE [errmsg |-> "",
        outlines |-> Texts(ConstructLines(lns, ws, r.nextline, p,
                       TouchL(ws, r.nextline, p.width - p.prefix - p.suffix,
                              p.just, p.touch)))]

JustResult(r) ==
  [nextline |-> r.nextline, errmsg |-> IF r.fpe THEN ErrSIGFPE ELSE r.errmsg]

(* Lines 440-442 *)
RfBreaks(lns, p, ws) ==
  RfLines(lns, p, ws,
          IF p.just = 1
          THEN JustResult(justbreaks(ws, p.width - p.prefix - p.suffix, p.last,
                                     Fresh(ws), Fresh(ws)))
          ELSE normalbreaks(ws, p.width - p.prefix - p.suffix, p.fit, p.last,
                            Fresh(ws), Fresh(ws)))

(* Lines 401-436 *)
RfLong(lns, p, ws) ==
  IF p.Report = 1
  THEN IF TooLong(ws, p.width - p.prefix - p.suffix) # {}
       THEN Failed(ErrWordTooLong)
       ELSE RfBreaks(lns, p, ws)
  ELSE RfBreaks(lns, p, SplitWords(ws, 1, p.width - p.prefix - p.suffix))

reformat(lns, p) ==
  IF Len(lns) <= 0 THEN Failed(ErrImpossibility4)
  ELSE IF ShortLines(lns, p.prefix, p.suffix) # {} THEN Failed(ErrLineShort)
  ELSE RfLong(lns, p,
              GuessWords(lns, CreateWords(lns, 1, p.prefix, p.suffix, TRUE),
                         p.guess, p.cap, p.terminalchars))

----------------------------------------------------------------------------
(* par.c: the flags of a lineprop, lines 703-722 *)

L_BODILESS == "L_BODILESS"
L_INVIS == "L_INVIS"
L_FIRST == "L_FIRST"
L_SUPERF == "L_SUPERF"

isbodiless(prop) == L_BODILESS \in prop.flags
isinvis(prop) == L_INVIS \in prop.flags
isfirst(prop) == L_FIRST \in prop.flags
issuperf(prop) == L_SUPERF \in prop.flags
isvacant(prop) == isbodiless(prop) /\ prop.rc = " "

csmember(c, cset) == c \in cset

(* lineprop vprop = { 0, 0, 0, '\0' }, iprop the same with L_INVIS; rc '\0' is *)
(* written "".                                                                 *)
vprop == [p |-> 0, s |-> 0, flags |-> {}, rc |-> ""]
iprop == [p |-> 0, s |-> 0, flags |-> {L_INVIS}, rc |-> ""]

----------------------------------------------------------------------------
(* readlines, par.c:861-1017, on the lines of stdin up to the next blank line  *)
(* (no line is blank or starts with a protective character; white characters   *)
(* are spaces already).  st is what readlines holds after the lines read so    *)
(* far: lines and props (lbuf, lpbuf), synth (the lines it supplied), and      *)
(* oldqpend, oldqsonly, firstline; oldln is the last line of lines.            *)

(* qpend runs from ln over the characters that are in quotechars *)
RECURSIVE SkipQuote(_, _, _)
SkipQuote(ln, q, quotechars) ==
  IF q < Len(ln) /\ csmember(ln[q + 1], quotechars)
  THEN SkipQuote(ln, q + 1, quotechars) ELSE q

(* p runs from qpend over the spaces and the characters in quotechars *)
RECURSIVE SkipQuoteOrSpace(_, _, _)
SkipQuoteOrSpace(ln, q, quotechars) ==
  IF q < Len(ln) /\ (ln[q + 1] = " " \/ csmember(ln[q + 1], quotechars))
  THEN SkipQuoteOrSpace(ln, q + 1, quotechars) ELSE q

(* while (qpend > ln && qpend[-1] == ' ') --qpend; *)
RECURSIVE BackOverSpaces(_, _)
BackOverSpaces(ln, q) ==
  IF q > 0 /\ ln[q] = " " THEN BackOverSpaces(ln, q - 1) ELSE q

(* for (p = ln, op = oldln; p < qpend && op < oldqpend && *p == *op; ++p, ++op) *)
RECURSIVE CommonQuote(_, _, _, _, _)
CommonQuote(ln, oldln, qpend, oldqpend, k) ==
  IF k < qpend /\ k < oldqpend /\ ln[k + 1] = oldln[k + 1]
  THEN CommonQuote(ln, oldln, qpend, oldqpend, k + 1) ELSE k

RLStart ==
  [lines |-> <<>>, props |-> <<>>, synth |-> <<>>,
   oldqpend |-> 0, oldqsonly |-> FALSE, firstline |-> TRUE]

(* additem(lbuf, &ln), additem(lpbuf, &vprop), and the old values are set *)
RLAppend(st, ln, qpend, qsonly) ==
  [lines |-> Append(st.lines, ln), props |-> Append(st.props, vprop),
   synth |-> Append(st.synth, FALSE),
   oldqpend |-> qpend, oldqsonly |-> qsonly, firstline |-> FALSE]

(* The quote prefixes differ and a line is supplied: vln is ln[0 .. p) *)
RLSupply(st, ln, p, invis) ==
  [st EXCEPT !.lines = Append(st.lines, SubSeq(ln, 1, p)),
             !.props = Append(st.props, IF invis = 1 THEN iprop ELSE vprop),
             !.synth = Append(st.synth, TRUE)]

(* if (oldqsonly) { *op = '\0'; ... } *)
RLCutOld(st, op) ==
  IF st.oldqsonly
  THEN [st EXCEPT !.lines[Len(st.lines)] = SubSeq(st.lines[Len(st.lines)], 1, op)]
  ELSE st

(* RLCompare, but truncating only when both lines are quote-skeleton-only *)
RLCompare_both(st, ln, qpend, qsonly, invis, p) ==
  IF p = qpend /\ p = st.oldqpend THEN RLAppend(st, ln, qpend, qsonly)
  ELSE IF invis = 0 /\ (st.oldqsonly /\ qsonly)
       THEN RLAppend(RLCutOld(st, p), SubSeq(ln, 1, p), p, qsonly)
       ELSE RLAppend(RLSupply(st, ln, p, invis), ln, qpend, qsonly)

(* if (!firstline): p = op is where the comparison of the quote prefixes ended *)
RLCompare(st, ln, qpend, qsonly, invis, p) ==
  IF p = qpend /\ p = st.oldqpend THEN RLAppend(st, ln, qpend, qsonly)
  ELSE IF invis = 0 /\ (st.oldqsonly \/ qsonly)
       THEN RLAppend(RLCutOld(st, p),
                     IF qsonly THEN SubSeq(ln, 1, p) ELSE ln,
                     IF qsonly THEN p ELSE qpend, qsonly)
       ELSE RLAppend(RLSupply(st, ln, p, invis), ln, qpend, qsonly)

(* if (quote) { ... } for the line ln *)
RLQuote(st, ln, qpend0, qsonly, invis) ==
  IF st.firstline THEN RLAppend(st, ln, BackOverSpaces(ln, qpend0), qsonly)
  ELSE RLCompare(st, ln, BackOverSpaces(ln, qpend0), qsonly, invis,
                 CommonQuote(ln, st.lines[Len(st.lines)],
                             BackOverSpaces(ln, qpend0), st.oldqpend, 0))

(* One line ended by '\n' *)
RLLine(st, ln, quotechars, invis, quote) ==
  IF quote = 1
  THEN RLQuote(st, ln, SkipQuote(ln, 0, quotechars),
               SkipQuoteOrSpace(ln, SkipQuote(ln, 0, quotechars), quotechars) = Len(ln),
               invis)
  ELSE RLAppend(st, ln, st.oldqpend, st.oldqsonly)

(* The loop over the lines; a last line that EOF ends (noeol = 1) is added by  *)
(* the code after the loop, which does not look at its quote prefix.           *)
RECURSIVE RLLoop(_, _, _, _, _, _, _)
RLLoop(st, inp, k, quotechars, invis, quote, noeol) ==
  IF k > Len(inp) THEN st
  ELSE IF k = Len(inp) /\ noeol = 1
       THEN RLAppend(st, inp[k], st.oldqpend, st.oldqsonly)
       ELSE RLLoop(RLLine(st, inp[k], quotechars, invis, quote), inp, k + 1,
                   quotechars, invis, quote, noeol)

readlines(inp, quotechars, invis, quote, noeol) ==
  RLLoop(RLStart, inp, 1, quotechars, invis, quote, noeol)

----------------------------------------------------------------------------
(* compresuflen, par.c:1020-1056.  lns holds the lines lines .. endline-1.     *)

(* end runs on while the character is not NUL and not a body character *)
RECURSIVE ScanNonBody(_, _, _)
ScanNonBody(ln, e, bodychars) ==
  IF e < Len(ln) /\ ~csmember(ln[e + 1], bodychars)
  THEN ScanNonBody(ln, e + 1, bodychars) ELSE e

(* for (p1 = start + pre, p2 = line + pre; p1 < end && p1[0] == p2[0]; ...) *)
RECURSIVE ComPre(_, _, _, _)
ComPre(l1, l2, k, end) ==
  IF k < end /\ k < Len(l2) /\ l1[k + 1] = l2[k + 1]
  THEN ComPre(l1, l2, k + 1, end) ELSE k

RECURSIVE ComPreLoop(_, _, _, _)
ComPreLoop(lns, i, pre, end) ==
  IF i > Len(lns) THEN end
  ELSE ComPreLoop(lns, i + 1, pre, ComPre(lns[1], lns[i], pre, end))

(* start runs back while start > start2 and start[-1] is not a body character *)
RECURSIVE BackNonBody(_, _, _, _)
BackNonBody(ln, start, start2, bodychars) ==
  IF start > start2 /\ ~csmember(ln[start], bodychars)
  THEN BackNonBody(ln, start - 1, start2, bodychars) ELSE start

(* p1 and p2 run back while p1 > start, p2 > start2 and p1[-1] == p2[-1] *)
RECURSIVE ComSuf(_, _, _, _, _, _)
ComSuf(l1, l2, p1, p2, start, start2) ==
  IF p1 > start /\ p2 > start2 /\ l1[p1] = l2[p2]
  THEN ComSuf(l1, l2, p1 - 1, p2 - 1, start, start2) ELSE p1

RECURSIVE ComSufLoop(_, _, _, _, _)
ComSufLoop(lns, i, ppre, suf, start) ==
  IF i > Len(lns) THEN start
  ELSE ComSufLoop(lns, i + 1, ppre, suf,
                  ComSuf(lns[1], lns[i], Len(lns[1]) - suf, Len(lns[i]) - suf,
                         start, ppre))

(* while (end - start >= 2 && start[0] == ' ' && start[1] == ' ') ++start; *)
RECURSIVE SkipDoubleSpace(_, _)
SkipDoubleSpace(ln, start) ==
  IF Len(ln) - start >= 2 /\ ln[start + 1] = " " /\ ln[start + 2] = " "
  THEN SkipDoubleSpace(ln, start + 1) ELSE start

ComSufLen(lns, bodychars, ppre, suf) ==
  Len(lns[1])
  - SkipDoubleSpace(lns[1],
      ComSufLoop(lns, 2, ppre, suf,
                 BackNonBody(lns[1], Len(lns[1]) - suf, ppre, bodychars)))

ComPreLen(lns, bodychars, pre) ==
  ComPreLoop(lns, 2, pre, ScanNonBody(lns[1], pre, bodychars))

compresuflen(lns, bodychars, pre, suf) ==
  [pre |-> ComPreLen(lns, bodychars, pre),
   suf |-> ComSufLen(lns, bodychars, ComPreLen(lns, bodychars, pre), suf)]

----------------------------------------------------------------------------
(* delimit, par.c:1059-1143.  The lines lines .. endline-1 are lns[lo .. hi];  *)
(* acc holds the props array and the record of the bodiless tests made.        *)

(* The character the body of the line repeats: rc = p < end ? p[0] : ' ' *)
RepeatChar(ln, pre, suf) ==
  IF pre < Len(ln) - suf THEN ln[pre + 1] ELSE " "

(* a bodiless test that takes repeat = 0 as no condition on the length *)
Bodiless_anylength(ln, pre, suf, repeat) ==
  /\ RepeatChar(ln, pre, suf) = " " \/ repeat = 0 \/ Len(ln) - suf - pre >= repeat
  /\ \A i \in (pre + 1)..(Len(ln) - suf) : ln[i] = RepeatChar(ln, pre, suf)

(* Lines 1093-1103: whether L_BODILESS stays set on the line *)
Bodiless(ln, pre, suf, repeat) ==
  IF RepeatChar(ln, pre, suf) # " " /\ (repeat = 0 \/ Len(ln) - suf - pre < repeat)
  THEN FALSE
  ELSE \A i \in (pre + 1)..(Len(ln) - suf) : ln[i] = RepeatChar(ln, pre, suf)

(* The body of the first do-while for line k *)
DLTest(lns, k, repeat, pre, suf, acc) ==
  IF Bodiless(lns[k], pre, suf, repeat)
  THEN [props |-> [acc.props EXCEPT ![k] =
                     [p |-> pre, s |-> suf, flags |-> @.flags \cup {L_BODILESS},
                      rc |-> RepeatChar(lns[k], pre, suf)]],
        detect |-> Append(acc.detect,
                     [line |-> k, pre |-> pre, suf |-> suf, repeat |-> repeat,
                      flagged |-> TRUE])]
  ELSE [props |-> [acc.props EXCEPT ![k] =
                     [p |-> pre, s |-> suf, flags |-> @.flags \ {L_BODILESS},
                      rc |-> @.rc]],
        detect |-> Append(acc.detect,
                     [line |-> k, pre |-> pre, suf |-> suf, repeat |-> repeat,
                      flagged |-> FALSE])]

RECURSIVE DLTestLoop(_, _, _, _, _, _, _)
DLTestLoop(lns, k, hi, repeat, pre, suf, acc) ==
  IF k > hi THEN acc
  ELSE DLTestLoop(lns, k + 1, hi, repeat, pre, suf,
                  DLTest(lns, k, repeat, pre, suf, acc))

(* nextline runs on while it is below endline and not bodiless *)
RECURSIVE NextBodiless(_, _, _)
NextBodiless(prs, k, hi) ==
  IF k <= hi /\ ~isbodiless(prs[k]) THEN NextBodiless(prs, k + 1, hi) ELSE k

(* The character at offset k of a line, "" for the NUL that ends it *)
CharAt(ln, k) == IF k < Len(ln) THEN ln[k + 1] ELSE ""

(* div marking the lines indented unlike the line before them *)
DLDiv_changes(lns, lo, hi, pre, prs) ==
  [k \in DOMAIN prs |->
     IF k \in lo..hi
        /\ (k = lo \/ (CharAt(lns[k], pre) = " ") # (CharAt(lns[k - 1], pre) = " "))
     THEN [prs[k] EXCEPT !.flags = @ \cup {L_FIRST}]
     ELSE prs[k]]

(* Lines 1136-1142: with div, the lines indented like the first are first *)
DLDiv(lns, lo, hi, pre, prs) ==
  [k \in DOMAIN prs |->
     IF k \in lo..hi /\ (CharAt(lns[k], pre) = " ") = (CharAt(lns[lo], pre) = " ")
     THEN [prs[k] EXCEPT !.flags = @ \cup {L_FIRST}]
     ELSE prs[k]]

RECURSIVE delimit(_, _, _, _, _, _, _, _, _)
RECURSIVE DLBlocks(_, _, _, _, _, _, _, _, _, _)
RECURSIVE DLMarked(_, _, _, _, _, _, _, _, _)

(* Lines 1111-1129: delimit is called on every run of lines without a bodiless *)
(* one, k being line.                                                          *)
DLBlocks(lns, lo, hi, bodychars, repeat, div, pre, suf, k, acc) ==
  IF k > hi THEN acc
  ELSE IF isbodiless(acc.props[k])
       THEN DLBlocks(lns, lo, hi, bodychars, repeat, div, pre, suf, k + 1, acc)
       ELSE DLBlocks(lns, lo, hi, bodychars, repeat, div, pre, suf,
                     NextBodiless(acc.props, k + 1, hi),
                     delimit(lns, k, NextBodiless(acc.props, k + 1, hi) - 1,
                             bodychars, repeat, div, pre, suf, acc))

(* Lines 1111-1142, after the bodiless tests with the new pre and suf *)
DLMarked(lns, lo, hi, bodychars, repeat, div, pre, suf, acc) ==
  IF \E k \in lo..hi : isbodiless(acc.props[k])
  THEN DLBlocks(lns, lo, hi, bodychars, repeat, div, pre, suf, lo, acc)
  ELSE IF div = 0
       THEN [acc EXCEPT !.props[lo].flags = @ \cup {L_FIRST}]
       ELSE [acc EXCEPT !.props = DLDiv(lns, lo, hi, pre, acc.props)]

(* Lines 1084-1109, cs being what compresuflen wrote into pre and suf *)
DLTested(lns, lo, hi, bodychars, repeat, div, cs, acc) ==
  DLMarked(lns, lo, hi, bodychars, repeat, div, cs.pre, cs.suf,
           DLTestLoop(lns, lo, hi, repeat, cs.pre, cs.suf, acc))

delimit(lns, lo, hi, bodychars, repeat, div, pre, suf, acc) ==
  IF hi < lo THEN acc
  ELSE IF hi = lo
       THEN [acc EXCEPT !.props[lo] =
               [p |-> pre, s |-> suf, flags |-> @.flags \cup {L_FIRST}, rc |-> @.rc]]
       ELSE DLTested(lns, lo, hi, bodychars, repeat, div,
                     compresuflen(SubSeq(lns, lo, hi), bodychars, pre, suf), acc)

----------------------------------------------------------------------------
(* marksuperf, par.c:1146-1175 *)

(* for (num = 0, p = line; p[0]; ++p) if (p[0] != ' ') ++num; *)
NonSpaces(ln) == Cardinality({i \in DOMAIN ln : ln[i] # " "})

(* The first loop: every vacant line is marked superfluous *)
MSVacant(prs) ==
  [k \in DOMAIN prs |->
     IF isvacant(prs[k]) THEN [prs[k] EXCEPT !.flags = @ \cup {L_SUPERF}] ELSE prs[k]]

(* mprop->flags &= ~L_SUPERF, mprop = 0 standing for &dummy *)
MSUnmark(prs, mprop) ==
  IF mprop = 0 THEN prs ELSE [prs EXCEPT ![mprop].flags = @ \ {L_SUPERF}]

(* the second loop keeping the last of the vacant lines with the fewest bytes *)
RECURSIVE MSLoop_last(_, _, _, _, _, _)
MSLoop_last(lns, prs, k, inbody, mnum, mprop) ==
  IF k > Len(lns) THEN prs
  ELSE IF isvacant(prs[k])
       THEN IF inbody \/ NonSpaces(lns[k]) <= mnum
            THEN MSLoop_last(lns, prs, k + 1, FALSE, NonSpaces(lns[k]), k)
            ELSE MSLoop_last(lns, prs, k + 1, FALSE, mnum, mprop)
       ELSE MSLoop_last(lns, IF inbody THEN prs ELSE MSUnmark(prs, mprop), k + 1,
                        TRUE, mnum, mprop)

(* The second loop, at line k *)
RECURSIVE MSLoop(_, _, _, _, _, _)
MSLoop(lns, prs, k, inbody, mnum, mprop) ==
  IF k > Len(lns) THEN prs
  ELSE IF isvacant(prs[k])
       THEN IF inbody \/ NonSpaces(lns[k]) < mnum
            THEN MSLoop(lns, prs, k + 1, FALSE, NonSpaces(lns[k]), k)
            ELSE MSLoop(lns, prs, k + 1, FALSE, mnum, mprop)
       ELSE MSLoop(lns, IF inbody THEN prs ELSE MSUnmark(prs, mprop), k + 1,
                   TRUE, mnum, mprop)

marksuperf(lns, prs) == MSLoop(lns, MSVacant(prs), 1, FALSE, 0, 0)

----------------------------------------------------------------------------
(* setaffixes, par.c:1178-1210.  lns is the IP, prop the lineprop of its first *)
(* line, prefix and suffix what main passes in (prefixbak, suffixbak).         *)

SAafp(lns, prop, quotechars, quote) ==
  IF Len(lns) = 1 /\ quote = 1 THEN SkipQuote(lns[1], prop.p, quotechars) ELSE prop.p

SADefault(lns, bodychars, hang) ==
  compresuflen(SubSeq(lns, hang + 1, Len(lns)), bodychars, 0, 0)

setaffixes(lns, prop, bodychars, quotechars, hang, quote, prefix, suffix) ==
  [afp |-> SAafp(lns, prop, quotechars, quote),
   fs |-> prop.s,
   prefix |-> IF prefix < 0
              THEN IF Len(lns) > hang + 1 THEN SADefault(lns, bodychars, hang).pre
                   ELSE SAafp(lns, prop, quotechars, quote)
              ELSE prefix,
   suffix |-> IF suffix < 0
              THEN IF Len(lns) > hang + 1 THEN SADefault(lns, bodychars, hang).suf
                   ELSE prop.s
              ELSE suffix]

----------------------------------------------------------------------------
(* main, par.c:1226-1432: one pass of the main loop, on the lines of stdin up  *)
(* to the next blank line.                                                     *)

ErrWidth == "<width> <= <prefix> + <suffix>"

(* The values main's parameters have when no option is given (lines 1228-1230, *)
(* touch after line 1297), with the charsets of an empty environment.          *)
MainDefaults ==
  [hang |-> 0, prefix |-> -1, repeat |-> 0, suffix |-> -1, width |-> 72,
   cap |-> 0, div |-> 0, expel |-> 0, fit |-> 0, guess |-> 0, invis |-> 0,
   just |-> 0, last |-> 0, quote |-> 0, Report |-> 0, touch |-> 0,
   bodychars |-> {}, quotechars |-> {">", " "}, noeol |-> 0]

(* while (end > line && end[-1] == ' ') --end; *)
StripTrailing(ln) == SubSeq(ln, 1, BackOverSpaces(ln, Len(ln)))

(* Lines 1356-1371: what is written for a bodiless line *)
BodilessText(ln, prop, repeat, width) ==
  IF repeat = 0 \/ (prop.rc = " " /\ prop.s = 0)
  THEN StripTrailing(ln)
  ELSE Bytes(ln, 0, Min(prop.p, Len(ln)))
       \o [i \in 1..(width - prop.p - prop.s) |-> prop.rc]
       \o Bytes(ln, Len(ln) - prop.s, Len(ln))

(* the test of line 1355 without !isinvis(firstprop) *)
Written_visible(prop, expel) == ~(expel = 1 /\ issuperf(prop))

(* if (!isinvis(firstprop) && !(expel && issuperf(firstprop))) *)
Written(prop, expel) == ~isinvis(prop) /\ ~(expel = 1 /\ issuperf(prop))

(* nextline runs on while below endline, not bodiless and not first *)
RECURSIVE NextParagraph(_, _, _)
NextParagraph(prs, k, hi) ==
  IF k <= hi /\ ~isbodiless(prs[k]) /\ ~isfirst(prs[k])
  THEN NextParagraph(prs, k + 1, hi) ELSE k

(* The arguments of the call of reformat, a being what setaffixes wrote *)
CallPar(cfg, a) ==
  [afp |-> a.afp, fs |-> a.fs, hang |-> cfg.hang, prefix |-> a.prefix,
   suffix |-> a.suffix, width |-> cfg.width, cap |-> cfg.cap, fit |-> cfg.fit,
   guess |-> cfg.guess, just |-> cfg.just, last |-> cfg.last,
   Report |-> cfg.Report, touch |-> cfg.touch, terminalchars |-> TerminalChars]

(* Lines 1382-1397 for the IP lns whose first line has the lineprop prop *)
ParagraphCall(lns, prop, cfg) ==
  [lines |-> lns,
   par |-> CallPar(cfg, setaffixes(lns, prop, cfg.bodychars, cfg.quotechars,
                                   cfg.hang, cfg.quote, cfg.prefix, cfg.suffix))]

ReformatIdle ==
  /\ pc = "idle" /\ inlines = <<>> /\ par = <<>> /\ words = <<>> /\ score = <<>>
  /\ nextline = <<>> /\ L = 0 /\ outlines = <<>> /\ outinfo = <<>> /\ errmsg = ""

(* main has parsed its arguments into cfg, and inp waits on stdin *)
Start(inp, cfg) ==
  /\ dpc = "read" /\ dcfg = cfg /\ input = inp
  /\ lines = <<>> /\ props = <<>> /\ synth = <<>> /\ detect = <<>>
  /\ firstline = 0 /\ output = <<>> /\ fate = <<>> /\ calls = <<>> /\ derrmsg = ""

(* inlines = readlines(&props, protectchars, quotechars, invis, quote, errmsg) *)
ReadLines ==
  /\ dpc = "read"
  /\ LET r == readlines(input, dcfg.quotechars, dcfg.invis, dcfg.quote, dcfg.noeol)
     IN  /\ lines' = r.lines
         /\ props' = r.props
         /\ synth' = r.synth
         /\ fate' = [k \in DOMAIN r.lines |-> "pending"]
  /\ dpc' = "delimit"
  /\ UNCHANGED <<dcfg, input, detect, firstline, output, calls, derrmsg>>
  /\ UNCHANGED rvars

(* delimit(inlines, endline, bodychars, repeat, div, 0, 0, props) *)
Delimit ==
  /\ dpc = "delimit"
  /\ LET d == delimit(lines, 1, Len(lines), dcfg.bodychars, dcfg.repeat, dcfg.div,
                      0, 0, [props |-> props, detect |-> <<>>])
     IN  props' = d.props /\ detect' = d.detect
  /\ dpc' = IF dcfg.expel = 1 THEN "superf" ELSE "out"
  /\ UNCHANGED <<dcfg, input, lines, synth, firstline, output, fate, calls, derrmsg>>
  /\ UNCHANGED rvars

(* if (expel) marksuperf(inlines, endline, props) *)
MarkSuperf ==
  /\ dpc = "superf"
  /\ props' = marksuperf(lines, props)
  /\ dpc' = "out"
  /\ UNCHANGED <<dcfg, input, lines, synth, detect, firstline, output, fate, calls,
                 derrmsg>>
  /\ UNCHANGED rvars

(* The do-while at line 1353 goes on while firstline < endline *)
Advance(n) ==
  /\ firstline' = n
  /\ dpc' = IF n < Len(lines) THEN "out" ELSE "done"

(* Lines 1354-1376: firstline is bodiless; it is written or passed over *)
OutBodiless ==
  /\ dpc = "out"
  /\ isbodiless(props[firstline + 1])
  /\ IF Written(props[firstline + 1], dcfg.expel)
     THEN IF ~(dcfg.repeat = 0
               \/ (props[firstline + 1].rc = " " /\ props[firstline + 1].s = 0))
             /\ dcfg.width - props[firstline + 1].p - props[firstline + 1].s < 0
          THEN /\ derrmsg' = ErrImpossibility5
               /\ dpc' = "done"
               /\ UNCHANGED <<firstline, output, fate>>
          ELSE /\ output' = Append(output,
                              BodilessText(lines[firstline + 1], props[firstline + 1],
                                           dcfg.repeat, dcfg.width))
               /\ fate' = [fate EXCEPT ![firstline + 1] = "written"]
               /\ Advance(firstline + 1)
               /\ UNCHANGED derrmsg
     ELSE /\ fate' = [fate EXCEPT ![firstline + 1] = "skipped"]
          /\ Advance(firstline + 1)
          /\ UNCHANGED <<output, derrmsg>>
  /\ UNCHANGED <<dcfg, input, lines, props, synth, detect, calls>>
  /\ UNCHANGED rvars

(* Lines 1378-1406: the IP that starts at firstline is passed to reformat and  *)
(* the lines returned are written.                                             *)
OutParagraph ==
  /\ dpc = "out"
  /\ ~isbodiless(props[firstline + 1])
  /\ LET nl == NextParagraph(props, firstline + 2, Len(lines))
         c == ParagraphCall(SubSeq(lines, firstline + 1, nl - 1),
                            props[firstline + 1], dcfg)
     IN  IF dcfg.width <= c.par.prefix + c.par.suffix
         THEN /\ derrmsg' = ErrWidth
              /\ dpc' = "done"
              /\ UNCHANGED <<firstline, output, fate, calls>>
         ELSE /\ calls' = Append(calls, c)
              /\ LET r == reformat(c.lines, c.par)
                 IN  IF r.errmsg # ""
                     THEN /\ derrmsg' = r.errmsg
                          /\ dpc' = "done"
                          /\ UNCHANGED <<firstline, output, fate>>
                     ELSE /\ output' = output \o r.outlines
                          /\ fate' = [k \in DOMAIN fate |->
                                        IF k \in (firstline + 1)..(nl - 1)
                                        THEN "reformatted" ELSE fate[k]]
                          /\ Advance(nl - 1)
                          /\ UNCHANGED derrmsg
  /\ UNCHANGED <<dcfg, input, lines, props, synth, detect>>
  /\ UNCHANGED rvars

(* The runs of main that are explored: up to MaxDriverLines lines taken from   *)
(* DriverLines, with every setting of quote, invis, expel and div, repeat up   *)
(* to MaxRepeat, and the width 72 of the defaults, NarrowWidth or TinyWidth.   *)

MaxDriverLines == 3  \* the most lines on stdin
MaxRepeat == 3       \* the largest repeat
NarrowWidth == 8     \* the width other than 72
TinyWidth == 2       \* a width below the affixes of the lines

Dashes == <<"-", "-", "-">>
FooBar == <<"f", "o", "o", " ", "b", "a", "r">>
Scenario4Lines == <<Dashes, FooBar, Dashes>>

DriverLines ==
  {Dashes, FooBar, <<"-", "-">>, <<">">>, <<">", " ", "a">>, <<">", ">", " ", "a">>,
   <<" ", "a">>, <<">", ">">>}

DriverInputs == UNION {[1..n -> DriverLines] : n \in 1..MaxDriverLines}

DriverParams ==
  {[MainDefaults EXCEPT !.quote = q, !.invis = i, !.expel = e, !.div = d,
                        !.repeat = r, !.width = w, !.noeol = n] :
     q \in Bit, i \in Bit, e \in Bit, d \in Bit, r \in 0..MaxRepeat,
     w \in {TinyWidth, NarrowWidth, MainDefaults.width}, n \in Bit}

DInit ==
  /\ \E inp \in DriverInputs, cfg \in DriverParams : Start(inp, cfg)
  /\ ReformatIdle

DNext == ReadLines \/ Delimit \/ MarkSuperf \/ OutBodiless \/ OutParagraph

SpecDriver == DInit /\ [][DNext]_vars

----------------------------------------------------------------------------
(* Properties of reformat() *)

(* L as reformat sets it on entry (touch may lower the variable L later) *)
L0 == par.width - par.prefix - par.suffix

Returned == pc = "done" /\ errmsg = ""

(* The body of a line: what lies between its prefix and its suffix *)
BodyOf(line, prefix, suffix) == Bytes(line, prefix, Len(line) - suffix)

(* The maximal runs of non-space characters of s from position i on, in order; *)
(* cur is the run being read.                                                  *)
RECURSIVE RunsFrom(_, _, _)
RunsFrom(s, i, cur) ==
  IF i > Len(s) THEN (IF cur = <<>> THEN <<>> ELSE <<cur>>)
  ELSE IF s[i] = " "
       THEN (IF cur = <<>> THEN <<>> ELSE <<cur>>) \o RunsFrom(s, i + 1, <<>>)
       ELSE RunsFrom(s, i + 1, Append(cur, s[i]))

RECURSIVE BodyRuns(_, _, _, _)
BodyRuns(lns, k, prefix, suffix) ==
  IF k > Len(lns) THEN <<>>
  ELSE RunsFrom(BodyOf(lns[k], prefix, suffix), 1, <<>>)
       \o BodyRuns(lns, k + 1, prefix, suffix)

InputRuns == BodyRuns(inlines, 1, par.prefix, par.suffix)
OutputRuns == BodyRuns(outlines, 1, par.prefix, par.suffix)

Count(seq, x) == Cardinality({i \in DOMAIN seq : seq[i] = x})
SameBag(a, b) ==
  /\ Len(a) = Len(b)
  /\ \A i \in DOMAIN a : Count(a, a[i]) = Count(b, a[i])

(* C1: every line that reformat returns is at most width bytes long, whatever  *)
(* hang, cap, fit, guess, just, last, Report and touch are (the calls explored *)
(* have width > prefix + suffix, and a line shorter than prefix + suffix ends  *)
(* the call with an error and no line).                                        *)
C1_LinesWithinWidth ==
  pc = "done" => \A k \in DOMAIN outlines : Len(outlines[k]) <= par.width

(* A call that returned several lines, one of them exactly width bytes long    *)
(* and one with its suffix after a padded body.                                *)
C1_Witness ==
  /\ Returned /\ Len(outlines) >= 2
  /\ \E k \in DOMAIN outlines : Len(outlines[k]) = par.width /\ outinfo[k].w1 # 0
  /\ \E k \in DOMAIN outlines : Len(outlines[k]) < par.width

(* The words as reformat creates them, before the guess pass and the splitting *)
Tokens == CreateWords(inlines, 1, par.prefix, par.suffix, TRUE)

(* C2 as stated: with guess = 0 and Report = 0, when no maximal run of         *)
(* non-space bytes of the bodies is longer than L, the lines returned hold the *)
(* same multiset of runs as the input lines.                                   *)
C2_Original ==
  (/\ Returned /\ par.guess = 0 /\ par.Report = 0
   /\ \A i \in DOMAIN InputRuns : Len(InputRuns[i]) <= L0)
  => SameBag(InputRuns, OutputRuns)

(* C2, amended: with guess = 0 and Report = 0, when reformat returns lines and *)
(* no Word as reformat creates it is longer than L (the first Word of the      *)
(* paragraph starts at the first byte of its line's body, so it includes the   *)
(* spaces before it), the lines returned hold the same multiset of non-space   *)
(* runs as the input lines.                                                    *)
C2_WordsPreserved ==
  (/\ Returned /\ par.guess = 0 /\ par.Report = 0
   /\ TooLong(Tokens, L0) = {})
  => SameBag(InputRuns, OutputRuns)

(* Words of two input lines returned on lines broken elsewhere *)
C2_Witness ==
  /\ Returned /\ par.guess = 0 /\ par.Report = 0
  /\ TooLong(Tokens, L0) = {}
  /\ Len(InputRuns) >= 3
  /\ Len(outlines) >= 2
  /\ Len(inlines) = 2
  /\ \E k \in DOMAIN outinfo : outinfo[k].numgaps >= 1

(* The words i .. e-1 joined by one space, two before a shifted word *)
RECURSIVE PlainJoin(_, _, _, _)
PlainJoin(lns, ws, i, e) ==
  IF i >= e THEN <<>>
  ELSE WordChars(lns, ws[i])
       \o (IF i + 1 < e
           THEN (IF W_SHIFTED \in ws[i + 1].flags THEN <<" ", " ">> ELSE <<" ">>)
           ELSE <<>>)
       \o PlainJoin(lns, ws, i + 1, e)

(* body is text followed by spaces only *)
IsPadded(body, text) ==
  /\ Len(body) >= Len(text)
  /\ SubSeq(body, 1, Len(text)) = text
  /\ \A i \in (Len(text) + 1)..Len(body) : body[i] = " "

RECURSIVE SumSeq(_)
SumSeq(q) == IF q = <<>> THEN 0 ELSE q[1] + SumSeq(Tail(q))

(* C3: with just = 1, in every returned line that holds words and is not the   *)
(* line of the paragraph's last words (and in that line too when last = 1),    *)
(* the spaces of justification written over the gaps add up to extra, the      *)
(* last word ends at offset L of the body, and the body has no padding.        *)
C3_JustifiedLinesFilled ==
  (Returned /\ par.just = 1) =>
    \A k \in DOMAIN outinfo :
      LET o == outinfo[k]
      IN  (o.w1 # 0 /\ (nextline[o.w1] # 0 \/ par.last = 1)) =>
            /\ SumSeq(o.gaps) = o.extra
            /\ Len(o.wordsbody) = L
            /\ BodyOf(outlines[k], par.prefix, par.suffix) = o.wordsbody
            /\ o.wordsbody[L] # " "

(* A justified line whose extra spaces do not divide evenly over its gaps *)
C3_Witness ==
  /\ Returned /\ par.just = 1
  /\ \E k \in DOMAIN outinfo :
       LET o == outinfo[k]
       IN  /\ o.w1 # 0 /\ nextline[o.w1] # 0
           /\ o.numgaps >= 2 /\ o.extra % o.numgaps # 0

Scenario1Out ==
  <<<<"T","h","e"," ","q","u","i","c","k"," ","b","r","o","w","n">>,
    <<"f","o","x"," ","j","u","m","p","s"," ","o","v","e","r">>,
    <<"t","h","e"," ","l","a","z","y"," ","d","o","g",".">>>>

(* C4: Scenario 1.  The lines "The quick brown fox jumps", "over the lazy      *)
(* dog." with width 15 and main's defaults come back as "The quick brown",     *)
(* "fox jumps over", "the lazy dog.".                                          *)
C4_Scenario1 ==
  (inlines = Scenario1Lines /\ par = Defaults(15, 0, 0) /\ pc = "done")
  => (errmsg = "" /\ outlines = Scenario1Out)

C4_Witness ==
  /\ inlines = Scenario1Lines /\ par = Defaults(15, 0, 0)
  /\ pc = "done" /\ Len(outlines) = 3

Scenario2Claimed ==
  <<<<"o","n","e"," "," ","t","w","o"," ","t","h","r","e","e"," ","f","o","u","r">>>>

(* C5 as stated: Scenario 2.  The line "one two three four" with width 20 and  *)
(* just = 1 comes back as the one line "one  two three four".                  *)
C5_Original ==
  (inlines = Scenario2Lines /\ par = Defaults(20, 1, 0) /\ pc = "done")
  => (errmsg = "" /\ outlines = Scenario2Claimed)

(* C5, amended: Scenario 2.  The line "one two three four" with width 20,      *)
(* just = 1 and last = 0 comes back as the one line "one two three four", one  *)
(* space in every gap: it is the paragraph's final line, which is not          *)
(* justified when last = 0.                                                    *)
C5_Scenario2 ==
  (inlines = Scenario2Lines /\ par = Defaults(20, 1, 0) /\ pc = "done")
  => (errmsg = "" /\ outlines = Scenario2Lines)

C5_Witness ==
  /\ inlines = Scenario2Lines /\ par = Defaults(20, 1, 0)
  /\ pc = "done" /\ Len(outlines) = 1 /\ outinfo[1].extra = 2

(* C6: with just = 1 and last = 0, whenever reformat returns lines, the line   *)
(* that holds the paragraph's last words has its words joined by one space     *)
(* (two before a shifted word) and no space of justification.                  *)
C6_FinalLineNotJustified ==
  (Returned /\ par.just = 1 /\ par.last = 0) =>
    \A k \in DOMAIN outinfo :
      LET o == outinfo[k]
      IN  (o.w1 # 0 /\ nextline[o.w1] = 0) =>
            /\ o.wordsbody = PlainJoin(inlines, words, o.w1, Len(words) + 1)
            /\ IsPadded(BodyOf(outlines[k], par.prefix, par.suffix), o.wordsbody)

(* A final line of several words that is shorter than L, after a justified one *)
C6_Witness ==
  /\ Returned /\ par.just = 1 /\ par.last = 0
  /\ Len(outinfo) >= 2
  /\ \E k \in DOMAIN outinfo :
       LET o == outinfo[k]
       IN  o.w1 # 0 /\ nextline[o.w1] = 0 /\ o.numgaps >= 1 /\ o.extra >= 1

(* The characters of each word of the list *)
WordStrings == [k \in DOMAIN words |-> WordChars(inlines, words[k])]

Hello == <<"H","e","l","l","o",".">>
World == <<"W","o","r","l","d">>
Foo == <<"f","o","o",".">>

(* C7 as stated: Scenario 3.  For "Hello.  World foo." (two spaces) with       *)
(* guess = 1 and width 10, the guess pass leaves a word of length 12 made of   *)
(* "Hello." and "World", and the splitting leaves the pieces "Hello. Wor" and  *)
(* "ld".                                                                       *)
C7_Original ==
  (inlines = Scenario3Lines /\ par = Defaults(10, 0, 1)) =>
    /\ pc = "long" => \E k \in DOMAIN words : words[k].length = 12
    /\ pc = "breaks" =>
         \E k \in DOMAIN words :
           /\ k + 1 \in DOMAIN words
           /\ WordStrings[k] = Hello \o <<" ">> \o <<"W","o","r">>
           /\ WordStrings[k + 1] = <<"l","d">>

(* C7, amended: Scenario 3.  For "Hello.  World foo." (two spaces) with        *)
(* guess = 1 and width 10 the guess pass merges nothing, as it merges a        *)
(* curious word with the capital word after it only when exactly one space     *)
(* lies between them: the words stay "Hello.", "World" (now shifted), "foo.",  *)
(* none is split, and the lines are "Hello." and "World foo.".  For            *)
(* "Hello. World foo." (one space) the guess pass makes the word               *)
(* "Hello. World" of length 12 and the splitting leaves "Hello. Wor" and "ld". *)
C7_Scenario3 ==
  /\ (inlines = Scenario3Lines /\ par = Defaults(10, 0, 1)) =>
       /\ pc \in {"long", "breaks", "lines", "done"} =>
            /\ WordStrings = <<Hello, World, Foo>>
            /\ words[2].flags = {W_SHIFTED, W_CAPITAL}
       /\ pc = "done" => outlines = <<Hello, World \o <<" ">> \o Foo>>
  /\ (inlines = Scenario3OneSpace /\ par = Defaults(10, 0, 1)) =>
       /\ pc = "long" =>
            /\ WordStrings = <<Hello \o <<" ">> \o World, Foo>>
            /\ words[1].length = 12
       /\ pc \in {"breaks", "lines", "done"} =>
            WordStrings = <<Hello \o <<" ">> \o <<"W","o","r">>, <<"l","d">>, Foo>>

(* The guess pass has run on the line with two spaces *)
C7_Witness ==
  /\ inlines = Scenario3Lines /\ par = Defaults(10, 0, 1)
  /\ pc = "long" /\ Len(words) = 3 /\ iscurious(words[1]) /\ iscapital(words[2])

JoinedLen(runs) == SumSeq([k \in DOMAIN runs |-> Len(runs[k])]) + Max(Len(runs) - 1, 0)

(* C8 as stated: with fit = 0 and just = 0, when the paragraph has body words   *)
(* and L is at least their length joined by single spaces plus one per shifted *)
(* word, reformat returns exactly one line, which holds the body words in      *)
(* input order, for every hang, last and touch.                                *)
C8_Original ==
  (/\ Returned /\ par.fit = 0 /\ par.just = 0
   /\ InputRuns # <<>>
   /\ L0 >= JoinedLen(InputRuns)
            + Cardinality({k \in DOMAIN words : W_SHIFTED \in words[k].flags}))
  => (Len(outlines) = 1 /\ OutputRuns = InputRuns)

(* The words after the guess pass, before any is split *)
GuessedWords == GuessWords(inlines, Tokens, par.guess, par.cap, par.terminalchars)

(* C8, amended: with fit = 0, just = 0 and hang <= 1, when the paragraph has a *)
(* Word and L is at least the length of the Words as reformat creates them     *)
(* (the first with the spaces that precede it in its line's body, two words    *)
(* merged by guess as one) joined by single spaces plus one per shifted word,  *)
(* reformat returns exactly one line, whose body is the Words in input order   *)
(* separated by single spaces (two before a shifted word), for every last and  *)
(* touch.                                                                      *)
C8_OneLine ==
  (/\ Returned /\ par.fit = 0 /\ par.just = 0 /\ par.hang <= 1
   /\ GuessedWords # <<>>
   /\ L0 >= LineLen(GuessedWords, 1, Len(GuessedWords) + 1))
  => /\ Len(outlines) = 1
     /\ IsPadded(BodyOf(outlines[1], par.prefix, par.suffix),
                 PlainJoin(inlines, GuessedWords, 1, Len(GuessedWords) + 1))

(* Words of two lines, one of them shifted, returned on a single line *)
C8_Witness ==
  /\ Returned /\ par.fit = 0 /\ par.just = 0 /\ par.hang <= 1
  /\ Len(GuessedWords) >= 2
  /\ L0 >= LineLen(GuessedWords, 1, Len(GuessedWords) + 1)
  /\ Len(outlines) = 1
  /\ \E k \in DOMAIN words : W_SHIFTED \in words[k].flags

----------------------------------------------------------------------------
(* Properties of the driver *)

(* What a bodiless test looked at: the body of the line and its first byte *)
TestBody(d) == Bytes(lines[d.line], d.pre, Len(lines[d.line]) - d.suf)
TestRc(d) == IF TestBody(d) = <<>> THEN " " ELSE TestBody(d)[1]
AllRc(d) == \A i \in DOMAIN TestBody(d) : TestBody(d)[i] = TestRc(d)

Tested == dpc \in {"superf", "out", "done"}

DashLine(n) == [i \in 1..n |-> "-"]

(* C9 as stated: a line that delimit tests is flagged bodiless iff every byte  *)
(* of its body equals rc and (rc = ' ', or repeat = 0, or |body| >= repeat);   *)
(* with the defaults the lines "---" of "---", "foo bar", "---" are bodiless   *)
(* with rc = '-' and only "foo bar" is passed to reformat.                     *)
C9_Original ==
  /\ Tested =>
       \A i \in DOMAIN detect :
         detect[i].flagged <=>
           /\ AllRc(detect[i])
           /\ \/ TestRc(detect[i]) = " "
              \/ detect[i].repeat = 0
              \/ Len(TestBody(detect[i])) >= detect[i].repeat
  /\ (dpc = "done" /\ input = Scenario4Lines /\ dcfg = MainDefaults) =>
       /\ \A k \in {1, 3} : isbodiless(props[k]) /\ props[k].rc = "-"
       /\ [i \in DOMAIN calls |-> calls[i].lines] = <<<<FooBar>>>>

(* C9, amended: in a group of two or more lines that delimit examines, a line  *)
(* is flagged bodiless iff every byte of its body equals rc and (rc = ' ', or  *)
(* repeat is not 0 and |body| >= repeat); delimit tests no line of a group of  *)
(* one, and a line ends up bodiless iff one of its tests flagged it.  With the *)
(* defaults (repeat = 0) no line of "---", "foo bar", "---" is bodiless and    *)
(* the three lines are passed to reformat as one paragraph; with repeat = 3    *)
(* the lines "---" are bodiless with rc = '-', only "foo bar" is passed to     *)
(* reformat, and each "---" is written as width dashes.                        *)
C9_BodilessTest ==
  /\ Tested =>
       /\ \A i \in DOMAIN detect :
            detect[i].flagged <=>
              /\ AllRc(detect[i])
              /\ \/ TestRc(detect[i]) = " "
                 \/ (detect[i].repeat # 0
                     /\ Len(TestBody(detect[i])) >= detect[i].repeat)
       /\ \A k \in DOMAIN lines :
            isbodiless(props[k]) <=>
              \E i \in DOMAIN detect : detect[i].line = k /\ detect[i].flagged
       /\ Len(lines) = 1 => detect = <<>>
  /\ (dpc = "done" /\ input = Scenario4Lines /\ dcfg = MainDefaults) =>
       /\ \A k \in 1..3 : ~isbodiless(props[k])
       /\ [i \in DOMAIN calls |-> calls[i].lines] = <<Scenario4Lines>>
       /\ output = <<Dashes \o <<" ">> \o FooBar \o <<" ">> \o Dashes>>
  /\ (dpc = "done" /\ input = Scenario4Lines
      /\ dcfg = [MainDefaults EXCEPT !.repeat = 3]) =>
       /\ \A k \in {1, 3} : isbodiless(props[k]) /\ props[k].rc = "-"
       /\ ~isbodiless(props[2])
       /\ [i \in DOMAIN calls |-> calls[i].lines] = <<<<FooBar>>>>
       /\ output = <<DashLine(72), FooBar, DashLine(72)>>

(* A run in which a line of dashes was flagged and a shorter one was not *)
C9_Witness ==
  /\ dpc = "done" /\ dcfg.repeat = 3
  /\ \E i \in DOMAIN detect : detect[i].flagged /\ TestRc(detect[i]) = "-"
  /\ \E i \in DOMAIN detect :
       ~detect[i].flagged /\ AllRc(detect[i]) /\ TestRc(detect[i]) = "-"

(* The lines the output loop has gone past *)
Passed == {k \in DOMAIN fate : fate[k] # "pending"}

(* C10 as stated: the output loop passes over a bodiless line exactly when it  *)
(* is superfluous and expel = 1, or readlines supplied it and invis = 0; with  *)
(* quote = 1 and invis = 0 no line readlines supplied reaches the output.      *)
C10_Original ==
  /\ \A k \in Passed :
       isbodiless(props[k]) =>
         (fate[k] = "skipped" <=>
            \/ issuperf(props[k]) /\ dcfg.expel = 1
            \/ synth[k] /\ dcfg.invis = 0)
  /\ (dcfg # <<>> /\ dcfg.quote = 1 /\ dcfg.invis = 0) =>
       \A k \in Passed : synth[k] => fate[k] = "skipped"

(* C10, amended: the output loop passes over a bodiless line exactly when it   *)
(* is superfluous and expel = 1, or readlines supplied it and invis = 1; every *)
(* other bodiless line is written.  With quote = 1 and invis = 1 no line that  *)
(* readlines supplied is written as a bodiless line: it reaches the output     *)
(* only when delimit has not flagged it bodiless, inside the paragraph that    *)
(* is passed to reformat.                                                      *)
C10_SkippedLines ==
  /\ \A k \in Passed :
       isbodiless(props[k]) =>
         /\ fate[k] = "skipped" <=>
              \/ issuperf(props[k]) /\ dcfg.expel = 1
              \/ synth[k] /\ dcfg.invis = 1
         /\ fate[k] \in {"skipped", "written"}
  /\ (dcfg # <<>> /\ dcfg.quote = 1 /\ dcfg.invis = 1) =>
       \A k \in Passed :
         synth[k] => /\ fate[k] # "written"
                     /\ fate[k] = "reformatted" <=> ~isbodiless(props[k])

(* A run that passed over a line readlines supplied, passed over a superfluous *)
(* line, and wrote a bodiless line                                             *)
C10_Witness ==
  /\ dpc = "done" /\ derrmsg = ""
  /\ \E k \in Passed : synth[k] /\ fate[k] = "skipped" /\ ~issuperf(props[k])
  /\ \E k \in Passed : ~synth[k] /\ fate[k] = "skipped" /\ issuperf(props[k])
  /\ \E k \in Passed : isbodiless(props[k]) /\ fate[k] = "written"


----------------------------------------------------------------------------
(* More properties of reformat() *)

(* The natural length of the line that starts at word w1: its words joined by  *)
(* single spaces, plus one per shifted word after the first.                   *)
RECURSIVE JoinedFrom(_, _)
JoinedFrom(k, e) ==
  IF k + 1 >= e THEN words[k].length
  ELSE words[k].length + 1 + (IF W_SHIFTED \in words[k + 1].flags THEN 1 ELSE 0)
       + JoinedFrom(k + 1, e)

NaturalLen(w1) ==
  JoinedFrom(w1, IF nextline[w1] = 0 THEN Len(words) + 1 ELSE nextline[w1])

WordLines == {k \in DOMAIN outinfo : outinfo[k].w1 # 0}

(* C11 as stated: a line with words is prefix + L - extra bytes long when      *)
(* just = 0 and suffix = 0, and prefix + L + suffix bytes long otherwise.      *)
C11_Original ==
  Returned =>
    \A k \in WordLines :
      Len(outlines[k]) =
        IF par.just = 0 /\ par.suffix = 0
        THEN par.prefix + L - (L - NaturalLen(outinfo[k].w1))
        ELSE par.prefix + L + par.suffix

(* C11: a returned line that holds words is prefix + L + suffix bytes long     *)
(* when suffix > 0, or when just = 1 and the line is not the final one or      *)
(* last = 1; every other line with words is prefix + L - extra bytes long,     *)
(* extra being L minus the natural length of the line (L as touch leaves it).  *)
C11_LineLength ==
  Returned =>
    \A k \in WordLines :
      Len(outlines[k]) =
        IF par.suffix # 0
           \/ (par.just = 1 /\ (nextline[outinfo[k].w1] # 0 \/ par.last = 1))
        THEN par.prefix + L + par.suffix
        ELSE par.prefix + L - (L - NaturalLen(outinfo[k].w1))

C11_Witness ==
  /\ Returned /\ par.just = 1 /\ par.last = 0 /\ par.suffix = 0
  /\ \E k \in WordLines : nextline[outinfo[k].w1] # 0
  /\ \E k \in WordLines :
       /\ nextline[outinfo[k].w1] = 0
       /\ NaturalLen(outinfo[k].w1) < L
       /\ Len(outlines[k]) = par.prefix + NaturalLen(outinfo[k].w1)


----------------------------------------------------------------------------
(* The break optimizers on their own: simplebreaks, normalbreaks and           *)
(* justbreaks applied to a word list as reformat hands it to them.  A word is  *)
(* at least one byte long, and the first word of a list is never shifted (the  *)
(* guess pass sets W_SHIFTED on a word only after a curious one).              *)

MaxBreakWords == 4   \* optimizer sweep: the most words of a list
MaxBreakLen == 3     \* optimizer sweep: the longest word
MaxBreakL == 7       \* optimizer sweep: the largest L

(* The word list with the lengths lens and the shifted bits sh, laid out on    *)
(* one line from offset st on.                                                 *)
RECURSIVE BreakWordsOf(_, _, _, _)
BreakWordsOf(lens, sh, k, st) ==
  IF k > Len(lens) THEN <<>>
  ELSE <<[ln |-> 1, st |-> st, length |-> lens[k],
          flags |-> IF sh[k] = 1 THEN {W_SHIFTED} ELSE NoFlags]>>
       \o BreakWordsOf(lens, sh, k + 1,
                       st + lens[k] + 1 + (IF k < Len(lens) THEN sh[k + 1] ELSE 0))

BreakWords ==
  UNION {{BreakWordsOf(lens, sh, 1, 0) :
            lens \in [1..n -> 1..MaxBreakLen],
            sh \in {b \in [1..n -> Bit] : b[1] = 0}} : n \in 1..MaxBreakWords}

(* An optimizer is about to be called on the list ws with L = len *)
BreakCall(ws, len, fit, last) ==
  /\ pc = "optimize" /\ words = ws /\ L = len
  /\ par = [fit |-> fit, last |-> last]
  /\ inlines = <<>> /\ score = Fresh(ws) /\ nextline = Fresh(ws)
  /\ outlines = <<>> /\ outinfo = <<>> /\ errmsg = ""


(* shortest = simplebreaks(head, tail, L, last) *)
SimpleBreaks ==
  /\ pc = "optimize"
  /\ LET r == simplebreaks(words, L, par.last, score, nextline)
     IN  /\ score' = r.score
         /\ nextline' = r.nextline
         /\ outinfo' = [op |-> "simplebreaks", ret |-> r.ret]
  /\ pc' = "optimized"
  /\ UNCHANGED <<inlines, par, words, L, outlines, errmsg>>
  /\ UNCHANGED dvars

(* normalbreaks(head, tail, L, fit, last, errmsg), called by reformat once no  *)
(* word is longer than L                                                       *)
NormalBreaksCall ==
  /\ pc = "optimize" /\ TooLong(words, L) = {}
  /\ LET r == normalbreaks(words, L, par.fit, par.last, score, nextline)
     IN  /\ score' = r.score
         /\ nextline' = r.nextline
         /\ errmsg' = r.errmsg
         /\ outinfo' = [op |-> "normalbreaks", target |-> r.target,
                        shortest |-> r.shortest]
  /\ pc' = "optimized"
  /\ UNCHANGED <<inlines, par, words, L, outlines>>
  /\ UNCHANGED dvars

MaxExtra == 12   \* gap sweep: the largest extra
MaxGaps == 6     \* gap sweep: the most gaps of a line

(* A line of numgaps gaps that lacks extra bytes to L: justbreaks is about to  *)
(* cost it, and reformat to write it.                                          *)
GapCall(numgaps, extra) ==
  /\ pc = "gaps" /\ par = [numgaps |-> numgaps, extra |-> extra]
  /\ words = <<>> /\ L = 0 /\ inlines = <<>> /\ score = <<>> /\ nextline = <<>>
  /\ outlines = <<>> /\ outinfo = <<>> /\ errmsg = ""

(* The cost of the line in the second pass of justbreaks, and the spaces the   *)
(* phase accumulator of reformat writes into its gaps                          *)
JustifyGaps ==
  /\ pc = "gaps"
  /\ outinfo' = [op |-> "gaps", cost |-> GapCost(par.numgaps, par.extra),
                 gaps |-> GapSpaces(par.numgaps, par.extra, 1, par.numgaps \div 2)]
  /\ pc' = "optimized"
  /\ UNCHANGED <<inlines, par, words, score, nextline, L, outlines, errmsg>>
  /\ UNCHANGED dvars

BInit ==
  /\ \/ \E ws \in BreakWords, len \in 0..MaxBreakL, fit \in Bit, last \in Bit :
          BreakCall(ws, len, fit, last)
     \/ \E numgaps \in 1..MaxGaps, extra \in 0..MaxExtra : GapCall(numgaps, extra)
  /\ DriverIdle

BNext == SimpleBreaks \/ NormalBreaksCall \/ JustifyGaps

SpecBreaks == BInit /\ [][BNext]_vars

----------------------------------------------------------------------------
(* Properties of the break optimizers *)

(* A way of cutting the words 1 .. n into consecutive lines is the set of the  *)
(* words that start a line after the first.                                    *)
Cuttings == SUBSET (2..Len(words))

LineStarts(S) == S \cup {1}

(* the word after the last word of the line that starts at s *)
LineStop(S, s) ==
  LET later == {t \in S : t > s}
  IN  IF later = {} THEN Len(words) + 1
      ELSE CHOOSE t \in later : \A u \in later : t <= u

(* linelen of the line of the words s .. e-1: the lengths, one space between   *)
(* two words, and one more before a shifted word                               *)
CutLen(s, e) ==
  SumSeq([k \in 1..(e - s) |-> words[s + k - 1].length]) + (e - s - 1)
  + Cardinality({k \in (s + 1)..(e - 1) : W_SHIFTED \in words[k].flags})

IsFinal(S, s) == LineStop(S, s) = Len(words) + 1

Fits(S, len) == \A s \in LineStarts(S) : CutLen(s, LineStop(S, s)) <= len

MinOf(T) == CHOOSE x \in T : \A y \in T : x <= y
MaxOf(T) == CHOOSE x \in T : \A y \in T : x >= y

(* the lines of a cutting that count: the final one only when last = 1 *)
Counted(S, last) == {s \in LineStarts(S) : last = 1 \/ ~IsFinal(S, s)}

ShortestOf(S, len, last) ==
  MinOf({len} \cup {CutLen(s, LineStop(S, s)) : s \in Counted(S, last)})

SimpleBreaksDone == pc = "optimized" /\ outinfo.op = "simplebreaks"

(* C12: simplebreaks on a non-empty list returns -1 exactly when a word is     *)
(* longer than L; otherwise it returns the largest value, over the ways of     *)
(* cutting the words into lines of at most L bytes, of the length of the       *)
(* shortest counted line (L when no line counts).                              *)
C12_SimpleBreaks ==
  SimpleBreaksDone =>
    /\ outinfo.ret = -1 <=> \E k \in DOMAIN words : words[k].length > L
    /\ outinfo.ret # -1 =>
         outinfo.ret = MaxOf({ShortestOf(S, L, par.last) :
                                S \in {T \in Cuttings : Fits(T, L)}})

C12_Witness ==
  /\ SimpleBreaksDone /\ par.last = 1 /\ Len(words) = MaxBreakWords
  /\ outinfo.ret > 0 /\ outinfo.ret < L
  /\ Cardinality({T \in Cuttings : Fits(T, L)}) > 2
  /\ \E k \in DOMAIN words : W_SHIFTED \in words[k].flags

(* The cutting that nextline describes: the words met from word k on *)
RECURSIVE Chain(_)
Chain(k) == IF k = 0 THEN {} ELSE {k} \cup Chain(nextline[k])

Chosen == Chain(1) \ {1}

(* every line at most target bytes, every counted line at least shortest *)
Admissible(S, target, shortest, last) ==
  /\ Fits(S, target)
  /\ \A s \in Counted(S, last) : CutLen(s, LineStop(S, s)) >= shortest

(* the sum over the counted lines of (target - linelen)^2 *)
SquareCost(S, target, last) ==
  SumSeq([k \in 1..Len(words) |->
            IF k \in Counted(S, last)
            THEN (target - CutLen(k, LineStop(S, k))) * (target - CutLen(k, LineStop(S, k)))
            ELSE 0])

NormalBreaksDone == pc = "optimized" /\ outinfo.op = "normalbreaks" /\ errmsg = ""

(* C13: after normalbreaks succeeds, the lines that nextline describes from    *)
(* the first word are a cutting with every line at most target and every       *)
(* counted line at least shortest (what simplebreaks returns at target), their *)
(* sum of (target - linelen)^2 over the counted lines is the least among such  *)
(* cuttings, and the score of the first word is that sum; the final line       *)
(* counts only when last = 1.                                                  *)
C13_NormalBreaksOptimal ==
  NormalBreaksDone =>
    LET t == outinfo.target
        sh == outinfo.shortest
        costs == {SquareCost(S, t, par.last) :
                    S \in {T \in Cuttings : Admissible(T, t, sh, par.last)}}
    IN  /\ sh = MaxOf({ShortestOf(S, t, par.last) : S \in {T \in Cuttings : Fits(T, t)}})
        /\ Admissible(Chosen, t, sh, par.last)
        /\ SquareCost(Chosen, t, par.last) = MinOf(costs)
        /\ score[1] = MinOf(costs)

C13_Witness ==
  /\ NormalBreaksDone /\ par.last = 1 /\ par.fit = 0
  /\ Chosen # {} /\ score[1] > 0
  /\ \E S \in Cuttings :
       /\ Admissible(S, outinfo.target, outinfo.shortest, par.last)
       /\ SquareCost(S, outinfo.target, par.last) > score[1]

----------------------------------------------------------------------------
(* Properties of reformat() with just = 1 *)

(* the least g with g * n >= x *)
CeilDiv(x, n) == MinOf({g \in 0..x : g * n >= x})

(* The gap of the line that starts at s in the cutting S: ceil(extra /         *)
(* numgaps), L for a line of one word, 0 for the final line when last = 0.     *)
LineGap(S, s, len, last) ==
  IF IsFinal(S, s) /\ last = 0 THEN 0
  ELSE IF LineStop(S, s) = s + 1 THEN len
  ELSE CeilDiv(len - CutLen(s, LineStop(S, s)), LineStop(S, s) - s - 1)

LargestGap(S, len, last) == MaxOf({LineGap(S, s, len, last) : s \in LineStarts(S)})

MinLargestGap(len, last) ==
  MinOf({LargestGap(S, len, last) : S \in {T \in Cuttings : Fits(T, len)}})

(* the first pass of justbreaks has run in this call *)
Pass1Ran ==
  /\ par.just = 1 /\ words # <<>>
  /\ \/ pc \in {"pass2", "lines"}
     \/ pc = "done" /\ errmsg \notin {ErrImpossibility4, ErrLineShort, ErrWordTooLong}

CannotJustify == pc = "done" /\ errmsg = ErrCannotJustify /\ outlines = <<>>

(* C14: with just = 1, the score the first pass of justbreaks leaves in the    *)
(* first word is the least, over the cuttings into lines of at most L bytes,   *)
(* of the largest gap of a line; and once the pass has run reformat ends with  *)
(* "Cannot justify." and no line exactly when that least value is >= L.        *)
C14_CannotJustify ==
  /\ (Pass1Ran /\ (pc = "pass2" \/ CannotJustify)) =>
       score[1] = MinLargestGap(L, par.last)
  /\ (Pass1Ran /\ pc = "done") =>
       (CannotJustify <=> MinLargestGap(L, par.last) >= L)
  /\ (Pass1Ran /\ pc \in {"pass2", "lines"}) => MinLargestGap(L, par.last) < L

C14_Witness ==
  /\ Pass1Ran /\ pc = "pass2" /\ Len(words) >= 3
  /\ score[1] > 1 /\ score[1] = MinLargestGap(L, par.last)
  /\ \E S \in Cuttings : Fits(S, L) /\ LargestGap(S, L, par.last) > score[1]

GapsDone == pc = "optimized" /\ outinfo.op = "gaps"

(* C15: for extra >= 0 and numgaps >= 1 the cost of the second pass,           *)
(* (extra / numgaps) * (extra + numbiggaps) + numbiggaps with numbiggaps =     *)
(* extra mod numgaps, is the sum over the gaps of the line of the square of    *)
(* the number of spaces that the phase accumulator, started at numgaps / 2,    *)
(* writes into the gap.                                                        *)
C15_CostIsSumOfSquares ==
  GapsDone =>
    /\ Len(outinfo.gaps) = par.numgaps
    /\ outinfo.cost =
         SumSeq([g \in 1..par.numgaps |-> outinfo.gaps[g] * outinfo.gaps[g]])

C15_Witness ==
  /\ GapsDone /\ par.numgaps >= 3 /\ par.extra > par.numgaps
  /\ par.extra % par.numgaps >= 2
  /\ \E g, h \in 1..par.numgaps : outinfo.gaps[g] > outinfo.gaps[h]

----------------------------------------------------------------------------
(* More properties of the driver *)

Delimited == dpc \in {"superf", "out", "done"}

(* C16 as stated: after delimit, recursion included, the prefix length p and   *)
(* the suffix length s attributed to a line add up to at most the length of    *)
(* the line, so that prefix and suffix do not overlap.                         *)
C16_Original ==
  Delimited => \A k \in DOMAIN lines : props[k].p + props[k].s <= Len(lines[k])

(* A run in which delimit left a line with p + s beyond its length, and main   *)
(* wrote that line with the bytes of its end twice.                            *)
C16_Witness ==
  /\ dpc = "done" /\ dcfg.repeat # 0 /\ dcfg.width = NarrowWidth
  /\ \E k \in DOMAIN lines :
       /\ lines[k] = <<">", ">", " ", "a">>
       /\ props[k].p = 4 /\ props[k].s = 2
       /\ fate[k] = "written"
  /\ \E j \in DOMAIN output : output[j] = <<">", ">", " ", "a", " ", " ", " ", "a">>

(* The IPs delimit leaves undivided: the runs lo .. hi of two or more lines    *)
(* none of which is bodiless, with a bodiless line or an end of the segment    *)
(* on either side.                                                             *)
Blocks ==
  {b \in (DOMAIN lines) \X (DOMAIN lines) :
     /\ b[1] < b[2]
     /\ \A k \in b[1]..b[2] : ~isbodiless(props[k])
     /\ b[1] = 1 \/ isbodiless(props[b[1] - 1])
     /\ b[2] = Len(lines) \/ isbodiless(props[b[2] + 1])}

(* the byte after the prefix of the block that starts at lo is a space *)
SpaceBit(k, lo) ==
  props[lo].p < Len(lines[k]) /\ lines[k][props[lo].p + 1] = " "

(* C17 as stated: with div = 1 a line of the block is marked first exactly     *)
(* when it is the first line or its bit differs from that of the line before.  *)
C17_Original ==
  Delimited =>
    \A b \in Blocks : \A k \in b[1]..b[2] :
      isfirst(props[k]) <=>
        IF dcfg.div = 1
        THEN k = b[1] \/ SpaceBit(k, b[1]) # SpaceBit(k - 1, b[1])
        ELSE k = b[1]

(* C17: in a sub-IP of two or more lines none of which is bodiless, with       *)
(* div = 1 a line is marked first exactly when its 'byte after the prefix is a *)
(* space' bit equals that of the first line of the sub-IP; with div = 0 only   *)
(* the first line is marked first.                                             *)
C17_FirstLines ==
  Delimited =>
    \A b \in Blocks : \A k \in b[1]..b[2] :
      isfirst(props[k]) <=>
        IF dcfg.div = 1
        THEN SpaceBit(k, b[1]) = SpaceBit(b[1], b[1])
        ELSE k = b[1]

C17_Witness ==
  /\ Delimited /\ dcfg.div = 1
  /\ \E b \in Blocks :
       /\ b[2] = b[1] + 2
       /\ SpaceBit(b[1], b[1]) /\ ~SpaceBit(b[1] + 1, b[1]) /\ ~SpaceBit(b[2], b[1])
       /\ isfirst(props[b[1]]) /\ ~isfirst(props[b[1] + 1]) /\ ~isfirst(props[b[2]])

SuperfMarked == dpc \in {"out", "done"} /\ dcfg.expel = 1

Vacant(k) == L_BODILESS \in props[k].flags /\ props[k].rc = " "

(* The maximal runs lo .. hi of vacant lines *)
VacantRuns ==
  {r \in (DOMAIN lines) \X (DOMAIN lines) :
     /\ r[1] <= r[2]
     /\ \A k \in r[1]..r[2] : Vacant(k)
     /\ r[1] = 1 \/ ~Vacant(r[1] - 1)
     /\ r[2] = Len(lines) \/ ~Vacant(r[2] + 1)}

Inner(r) == r[1] > 1 /\ r[2] < Len(lines)

NonSpaceBytes(k) == Len(SelectSeq(lines[k], LAMBDA c : c # " "))

(* the leftmost line of the run r among those with the fewest non-space bytes *)
Kept(r) ==
  CHOOSE k \in r[1]..r[2] :
    /\ \A j \in r[1]..r[2] : NonSpaceBytes(k) <= NonSpaceBytes(j)
    /\ \A j \in r[1]..(k - 1) : NonSpaceBytes(j) > NonSpaceBytes(k)

(* C18: after marksuperf, in every maximal run of vacant lines with a          *)
(* non-vacant line on both sides exactly one line is not superfluous, the      *)
(* leftmost of those with the fewest non-space bytes; every vacant line of a   *)
(* run at the start or the end of the segment is superfluous; and no           *)
(* non-vacant line is superfluous.                                             *)
C18_Superfluous ==
  SuperfMarked =>
    /\ \A r \in VacantRuns : \A k \in r[1]..r[2] :
         issuperf(props[k]) <=> ~(Inner(r) /\ k = Kept(r))
    /\ \A k \in DOMAIN lines : ~Vacant(k) => ~issuperf(props[k])

C18_Witness ==
  /\ SuperfMarked /\ dpc = "done"
  /\ \E r \in VacantRuns :
       /\ Inner(r) /\ r[2] > r[1] /\ Kept(r) > r[1]
       /\ ~issuperf(props[Kept(r)]) /\ issuperf(props[r[1]])
       /\ fate[Kept(r)] # "skipped" /\ fate[r[1]] = "skipped"

Impossibilities ==
  {ErrImpossibility1, ErrImpossibility2, ErrImpossibility3, ErrImpossibility4,
   ErrImpossibility5}

(* C19 as stated: no run of the driver reports an impossibility, from          *)
(* normalbreaks (1, 2), justbreaks (3), reformat (4) or the output of a        *)
(* bodiless line (5).                                                          *)
C19_Original == derrmsg \notin Impossibilities

(* A run that ends with impossibility #5: a vacant line with a suffix whose    *)
(* p + s is more than width, and repeat is not 0.                              *)
C19_Witness ==
  /\ dpc = "done" /\ derrmsg = ErrImpossibility5
  /\ dcfg.repeat # 0
  /\ isvacant(props[firstline + 1])
  /\ props[firstline + 1].p + props[firstline + 1].s <= Len(lines[firstline + 1])
  /\ props[firstline + 1].p + props[firstline + 1].s > dcfg.width

(* The quote prefix of a line: its longest start made of quote characters,     *)
(* without the spaces that end it                                              *)
QuoteRun(ln) ==
  CHOOSE n \in 0..Len(ln) :
    /\ \A i \in 1..n : ln[i] \in dcfg.quotechars
    /\ n < Len(ln) => ln[n + 1] \notin dcfg.quotechars
QuotePrefixLen(ln) ==
  CHOOSE m \in 0..QuoteRun(ln) :
    /\ m > 0 => ln[m] # " "
    /\ \A i \in (m + 1)..QuoteRun(ln) : ln[i] = " "

(* A line is quote-skeleton-only when what follows its quote characters is     *)
(* made of spaces and quote characters                                         *)
SkeletonOnly(ln) ==
  \A i \in (QuoteRun(ln) + 1)..Len(ln) : ln[i] = " " \/ ln[i] \in dcfg.quotechars

(* The length of the longest common start of two strings *)
CommonLen(a, b) ==
  CHOOSE n \in 0..Min(Len(a), Len(b)) :
    /\ \A i \in 1..n : a[i] = b[i]
    /\ n < Min(Len(a), Len(b)) => a[n + 1] # b[n + 1]

(* The length of the quote prefix readlines holds for line k of stdin once it  *)
(* has compared it with line k - 1: the common prefix when the line was        *)
(* truncated, its own quote prefix otherwise.  both tells which condition on   *)
(* the skeleton lines goes with the truncation: both lines, or either.         *)
RECURSIVE HeldPrefix(_, _)
HeldPrefix(k, both) ==
  IF k = 1 THEN QuotePrefixLen(input[1])
  ELSE LET own == SubSeq(input[k], 1, QuotePrefixLen(input[k]))
           old == SubSeq(input[k - 1], 1, HeldPrefix(k - 1, both))
           skel == IF both
                   THEN SkeletonOnly(input[k - 1]) /\ SkeletonOnly(input[k])
                   ELSE SkeletonOnly(input[k])
       IN  IF own # old /\ dcfg.invis = 0 /\ skel
           THEN CommonLen(own, old) ELSE Len(own)

(* The places in lines of the lines read from stdin, in order *)
ReadIdx == SelectSeq([i \in DOMAIN synth |-> i], LAMBDA i : ~synth[i])

IsStartOf(a, b) == Len(a) <= Len(b) /\ a = SubSeq(b, 1, Len(a))

(* What C20 says of line k of stdin (k > 1), with the exception taken when     *)
(* invis = 0 and both lines (both = TRUE) or either line (both = FALSE) are    *)
(* quote-skeleton-only.                                                        *)
QuoteLine(k, both) ==
  LET own == SubSeq(input[k], 1, QuotePrefixLen(input[k]))
      old == SubSeq(input[k - 1], 1, HeldPrefix(k - 1, both))
      c == CommonLen(own, old)
      oldskel == SkeletonOnly(input[k - 1])
      skel == SkeletonOnly(input[k])
      except == dcfg.invis = 0 /\ IF both THEN oldskel /\ skel ELSE oldskel \/ skel
      here == ReadIdx[k]
  IN  IF own = old THEN ReadIdx[k - 1] = here - 1
      ELSE IF except
           THEN /\ ReadIdx[k - 1] = here - 1
                /\ oldskel => lines[here - 1] = SubSeq(input[k - 1], 1, c)
                /\ skel => /\ IsStartOf(lines[here], SubSeq(input[k], 1, c))
                           /\ k = Len(input) => lines[here] = SubSeq(input[k], 1, c)
           ELSE /\ ReadIdx[k - 1] = here - 2
                /\ synth[here - 1]
                /\ lines[here - 1] = SubSeq(input[k], 1, c)
                /\ props[here - 1] = IF dcfg.invis = 1 THEN iprop ELSE vprop
                /\ IsStartOf(SubSeq(input[k], 1, c), lines[here])

HasRead == dpc = "delimit" /\ dcfg.quote = 1

(* C20 as stated: with quote = 1, for each line after the first whose quote    *)
(* prefix differs from that of the previous line, readlines supplies a line    *)
(* equal to their common prefix before it, except exactly when invis = 0 and   *)
(* both lines are quote-skeleton-only, when no line is supplied and the        *)
(* skeleton lines are truncated to the common prefix.                          *)
C20_Original ==
  HasRead =>
    /\ Len(ReadIdx) = Len(input) /\ ReadIdx[1] = 1
    /\ \A k \in 2..Len(input) : QuoteLine(k, TRUE)

(* C20, amended: with quote = 1, for each line after the first that a newline  *)
(* ends and whose quote prefix differs from the quote prefix readlines holds   *)
(* for the previous line, a line equal to their common prefix is supplied      *)
(* before it (flagged invisible iff invis = 1), except exactly when invis = 0  *)
(* and either line is quote-skeleton-only; then no line is supplied and each   *)
(* of the two lines that is quote-skeleton-only is truncated to the common     *)
(* prefix.  A last line that the end of the input ends is appended as it is.   *)
C20_QuoteLines ==
  HasRead =>
    /\ Len(ReadIdx) = Len(input) /\ ReadIdx[1] = 1
    /\ \A k \in 2..Len(input) :
         IF k = Len(input) /\ dcfg.noeol = 1
         THEN /\ ReadIdx[k] = ReadIdx[k - 1] + 1
              /\ lines[ReadIdx[k]] = input[k]
         ELSE QuoteLine(k, FALSE)

(* readlines has supplied a line between two lines with bodies, and has        *)
(* truncated a skeleton line before a line with a body instead of supplying    *)
(* one in another run.                                                         *)
C20_Witness ==
  /\ HasRead /\ dcfg.invis = 0 /\ dcfg.noeol = 0
  /\ Len(input) = 3
  /\ SkeletonOnly(input[1]) /\ ~SkeletonOnly(input[2]) /\ ~SkeletonOnly(input[3])
  /\ QuotePrefixLen(input[1]) > QuotePrefixLen(input[2])
  /\ QuotePrefixLen(input[3]) > QuotePrefixLen(input[2])
  /\ synth = <<FALSE, FALSE, TRUE, FALSE>>
  /\ Len(lines[1]) < Len(input[1])

----------------------------------------------------------------------------
(* More properties of reformat() *)

(* C21: pass 2 of justbreaks never evaluates extra / numgaps or                *)
(* extra % numgaps with numgaps = 0: it is entered only with maxgap < L, and   *)
(* a candidate line with no gap has gap = L, which gap <= maxgap excludes.     *)
C21_NoDivisionByZero ==
  /\ pc # "fpe"
  /\ pc = "pass2" => score[1] < L

(* Pass 2 has run over a candidate line with no gap whose successor has a      *)
(* score: the word before the last, alone on its line, with only the test on   *)
(* gap to keep the division from it.                                           *)
C21_Witness ==
  /\ pc = "lines" /\ par.just = 1 /\ errmsg = ""
  /\ Len(words) >= 2
  /\ score[Len(words)] >= 0
  /\ L - words[Len(words) - 1].length >= 0

(* How far reformat is from its return: the rank of its position, and within   *)
(* a loop what the loop has left: the bytes of the words that are not yet the  *)
(* first byte of a word (the loop over the too-long words), tryL (the fit      *)
(* search), the lines hang still asks for plus the words from w1 on (the       *)
(* construction loop).                                                         *)
LoopRank ==
  CASE pc = "idle" -> 11 [] pc = "words" -> 10 [] pc = "guess" -> 9
    [] pc = "long" -> 8 [] pc = "breaks" -> 7 [] pc \in {"fit", "pass2"} -> 6
    [] pc = "shortest" -> 5 [] pc = "lines" -> 4 [] pc = "out" -> 3
    [] OTHER -> 0

LoopLeft ==
  CASE pc = "long" -> SumSeq([k \in DOMAIN words |-> words[k].length]) - Len(words)
    [] pc = "fit" -> outinfo.tryL
    [] pc = "out" -> Max(par.hang - Len(outinfo), 0)
                     + (IF OutW1 = 0 THEN 0 ELSE Len(words) + 1 - OutW1)
    [] OTHER -> 0

Descends ==
  \/ LoopRank' < LoopRank
  \/ LoopRank' = LoopRank /\ LoopLeft' < LoopLeft

(* C22: every call of reformat that main makes (width > prefix + suffix, so    *)
(* L >= 1) terminates.  Every step of the call goes down in (LoopRank,         *)
(* LoopLeft), which never leaves the naturals: a pass of the loop over the     *)
(* too-long words shortens the remaining word and leaves every word a length   *)
(* >= 1, a pass of the fit search lowers tryL, which never goes below 0, and   *)
(* a pass of the construction loop moves w1 along nextline or numout towards   *)
(* hang.                                                                       *)
C22_Terminates ==
  /\ [](/\ LoopLeft \in Nat
        /\ pc # "idle" => par.width > par.prefix + par.suffix
        /\ pc \in {"long", "breaks", "fit", "shortest"} =>
             L >= 1 /\ \A k \in DOMAIN words : words[k].length >= 1
        /\ pc = "fit" => FitDown(outinfo.tryL) < outinfo.tryL)
  /\ [][Descends]_vars

(* What the loops leave is what reformat() as one function returns *)
LoopsAgree ==
  pc = "done" =>
    /\ errmsg = reformat(inlines, par).errmsg
    /\ outlines = reformat(inlines, par).outlines

(* reformat has returned lines after the loop over the too-long words cut a    *)
(* word in three, the fit search ran, and the construction loop wrote a line   *)
(* after the last word because of hang.                                        *)
C22_Witness ==
  /\ pc = "done" /\ errmsg = ""
  /\ par.fit = 1 /\ par.just = 0 /\ par.Report = 0
  /\ \E k \in DOMAIN words :
       /\ k + 2 \in DOMAIN words
       /\ words[k].st < words[k + 1].st /\ words[k + 1].st < words[k + 2].st
       /\ inlines[1][words[k].st + 1] = inlines[1][words[k + 2].st + 1]
  /\ Len(outlines) = par.hang
  /\ outinfo[Len(outinfo)].w1 = 0

====
